---- MODULE Spec2Model ----
(***************************************************************************)
(* Model of the value marshaling subsystem (src/core/marsh.c): the varint  *)
(* codec, the writer (marshal_one and its helpers), the reader             *)
(* (unmarshal_one and its helpers) and their reference tables.             *)
(*                                                                         *)
(* A byte buffer is a sequence of 0..255.  A read cursor is a 0-based      *)
(* offset into the input, so the byte under cursor d is bytes[d + 1] and   *)
(* st->end is Len(bytes).  A panic (janet_panic, a longjmp out of the      *)
(* whole call) is the field err becoming a non-empty message; every        *)
(* operator leaves a state that already carries an error untouched.        *)
(***************************************************************************)
EXTENDS Integers, Sequences, FiniteSets, TLC

VARIABLES pc, big_endian, heap, x, y, rreg, reg, mst, ust, ival, ibuf, ires

vars == <<pc, big_endian, heap, x, y, rreg, reg, mst, ust, ival, ibuf, ires>>

(***************************************************************************)
(* Lead bytes in marshaling protocol                                       *)
(***************************************************************************)
LB_REAL == 200
LB_NIL == 201
LB_FALSE == 202
LB_TRUE == 203
LB_FIBER == 204
LB_INTEGER == 205
LB_STRING == 206
LB_SYMBOL == 207
LB_KEYWORD == 208
LB_ARRAY == 209
LB_TUPLE == 210
LB_TABLE == 211
LB_TABLE_PROTO == 212
LB_STRUCT == 213
LB_BUFFER == 214
LB_FUNCTION == 215
LB_REGISTRY == 216
LB_ABSTRACT == 217
LB_REFERENCE == 218
LB_FUNCENV_REF == 219
LB_FUNCDEF_REF == 220

(***************************************************************************)
(* 32-bit integer arithmetic.  The model checker's integers are 32 bits    *)
(* wide themselves, so a wrapping left shift is computed from the bits     *)
(* that survive it instead of from the (overflowing) product.              *)
(***************************************************************************)
INT32_MAX == 2147483647
INT32_MIN == -2147483647 - 1

Pow2(k) == IF k = 0 THEN 1 ELSE 2 ^ k

\* x >> k on an int32_t (arithmetic shift: floor division)
Sar(v, k) == v \div Pow2(k)

\* (int32_t)(v << k): the low 32 - k bits of v move up, bit 31 - k becomes the sign
Shl32(v, k) ==
    LET m == Pow2(32 - k)
        low == v % m
    IN  IF low >= m \div 2 THEN (low - m) * Pow2(k) ELSE low * Pow2(k)

(***************************************************************************)
(* Output primitives of the writer: st is the MarshalState.                *)
(***************************************************************************)
pushbyte(st, b) == [st EXCEPT !.buf = Append(@, b)]

\* pushbytes that appends nothing (a faulty variant, to test what C7 rests on)
pushbytes_none(st, bytes) == st

pushbytes(st, bytes) == [st EXCEPT !.buf = @ \o bytes]

\* pushint with the 2-byte form's sign bit dropped (high byte masked with 0x1F)
pushint_nosign(st, v) ==
    IF v >= 0 /\ v < 128 THEN pushbyte(st, v)
    ELSE IF v <= 8191 /\ v >= -8192
         THEN pushbytes(st, << (Sar(v, 8) % 32) + 128, v % 256 >>)
         ELSE pushbytes(st, << LB_INTEGER, Sar(v, 24) % 256, Sar(v, 16) % 256,
                               Sar(v, 8) % 256, v % 256 >>)

\* Marshal an integer onto the buffer
pushint(st, v) ==
    IF v >= 0 /\ v < 128 THEN pushbyte(st, v)
    ELSE IF v <= 8191 /\ v >= -8192
         THEN pushbytes(st, << (Sar(v, 8) % 64) + 128, v % 256 >>)
         ELSE pushbytes(st, << LB_INTEGER, Sar(v, 24) % 256, Sar(v, 16) % 256,
                               Sar(v, 8) % 256, v % 256 >>)

(***************************************************************************)
(* Input primitives of the reader: us is the UnmarshalState together with  *)
(* the cursor (us.data) and the value a read returns (us.ret).             *)
(***************************************************************************)
panic(s, msg) == IF s.err = "" THEN [s EXCEPT !.err = msg] ELSE s

\* MARSH_EOS(st, data): the condition under which it panics
MARSH_EOS(us, d) == d >= Len(us.bytes)

\* MARSH_EOS(st, data + len): pointers are wider than the int32 len
MARSH_EOS_AT(us, d, len) == len >= Len(us.bytes) - d

\* data[d]; a read outside the input yields what the memory there holds in this run
byteat(us, d) == IF d < 0 \/ d >= Len(us.bytes) THEN us.uninit ELSE us.bytes[d + 1]

\* A record of the reads, kept beside the state and read by no operator of the
\* reader: oob lists the reads of data[lo..hi] that touched a byte outside the input
fetched(us, lo, hi) ==
    IF lo < 0 \/ hi >= Len(us.bytes) THEN [us EXCEPT !.oob = Append(@, <<lo, hi>>)] ELSE us

\* A record of the reader's calls, kept beside the state and read by no operator of
\* the reader: calls counts the calls that returned, astray lists those that returned
\* a NULL cursor, a cursor before the one they were given or one past the end
returned(us0, fn, s) ==
    [s EXCEPT !.calls = IF s.err = "" THEN @ + 1 ELSE @,
              !.astray = IF s.err = ""
                            /\ (s.null \/ s.data < us0.data \/ s.data > Len(s.bytes))
                         THEN Append(@, [fn |-> fn, from |-> us0.data, to |-> s.data,
                                         null |-> s.null])
                         ELSE @]

\* refs lists the back-references read: the vector, the id, the entries the vector
\* held, and the entry the reference resolved to (NULL when it did not resolve)
noted(us, what, id, count, got) ==
    [us EXCEPT !.refs = Append(@, [what |-> what, id |-> id, count |-> count, got |-> got])]

\* readint without the sign extension of the 2-byte form
readint_nosignext(us) ==
    LET d == us.data IN
    IF us.err # "" THEN us
    ELSE IF MARSH_EOS(us, d) THEN panic(us, "unexpected end of source")
    ELSE IF byteat(us, d) < 128
         THEN [fetched(us, d, d) EXCEPT !.ret = byteat(us, d), !.data = d + 1]
    ELSE IF byteat(us, d) < 192
         THEN IF MARSH_EOS(us, d + 1) THEN panic(fetched(us, d, d), "unexpected end of source")
              ELSE [fetched(us, d, d + 1) EXCEPT
                      !.ret = (byteat(us, d) % 64) * 256 + byteat(us, d + 1),
                              !.data = d + 2]
    ELSE IF byteat(us, d) = LB_INTEGER
         THEN IF MARSH_EOS(us, d + 4) THEN panic(fetched(us, d, d), "unexpected end of source")
              ELSE [fetched(us, d, d + 4) EXCEPT !.ret = Shl32(byteat(us, d + 1), 24)
                                      + byteat(us, d + 2) * 65536
                                      + byteat(us, d + 3) * 256
                                      + byteat(us, d + 4),
                              !.data = d + 5]
    ELSE panic(fetched(us, d, d), "expected integer")

\* Helper to read a 32 bit integer from an unmarshal state
readint(us) ==
    returned(us, "readint",
    LET d == us.data IN
    IF us.err # "" THEN us
    ELSE IF MARSH_EOS(us, d) THEN panic(us, "unexpected end of source")
    ELSE IF byteat(us, d) < 128
         THEN [fetched(us, d, d) EXCEPT !.ret = byteat(us, d), !.data = d + 1]
    ELSE IF byteat(us, d) < 192
         THEN IF MARSH_EOS(us, d + 1) THEN panic(fetched(us, d, d), "unexpected end of source")
              ELSE [fetched(us, d, d + 1) EXCEPT
                      !.ret = Sar(Shl32((byteat(us, d) % 64) * 256 + byteat(us, d + 1), 18), 18),
                      !.data = d + 2]
    ELSE IF byteat(us, d) = LB_INTEGER
         THEN IF MARSH_EOS(us, d + 4) THEN panic(fetched(us, d, d), "unexpected end of source")
              ELSE [fetched(us, d, d + 4) EXCEPT !.ret = Shl32(byteat(us, d + 1), 24)
                                      + byteat(us, d + 2) * 65536
                                      + byteat(us, d + 3) * 256
                                      + byteat(us, d + 4),
                              !.data = d + 5]
    ELSE panic(fetched(us, d, d), "expected integer"))

(***************************************************************************)
(* Values.  A Janet value is a record [type, n, bytes]: n is the integer   *)
(* of an integral number or the address of a heap object, bytes the        *)
(* contents of a string, symbol or keyword, or the eight bytes (in wire    *)
(* order, least significant first) of a number that is not an int32.       *)
(***************************************************************************)
janet_wrap_nil == [type |-> "nil", n |-> 0, bytes |-> <<>>]
janet_wrap_false == [type |-> "false", n |-> 0, bytes |-> <<>>]
janet_wrap_true == [type |-> "true", n |-> 0, bytes |-> <<>>]
janet_wrap_integer(i) == [type |-> "number", n |-> i, bytes |-> <<>>]
janet_wrap_number(le) == [type |-> "number", n |-> 0, bytes |-> le]
janet_wrap_string(b) == [type |-> "string", n |-> 0, bytes |-> b]
janet_wrap_symbol(b) == [type |-> "symbol", n |-> 0, bytes |-> b]
janet_wrap_keyword(b) == [type |-> "keyword", n |-> 0, bytes |-> b]
janet_wrap_pointer(t, id) == [type |-> t, n |-> id, bytes |-> <<>>]

janet_checktype(v, t) == v.type = t

\* janet_checkintrange(xval): the double is integral and fits an int32_t
janet_checkintrange(v) == v.bytes = <<>>

\* the JanetType enumerators of nil, false and true, as added to 200 by marshal_one
JanetTypeCode(t) == CASE t = "nil" -> 1 [] t = "false" -> 2 [] t = "true" -> 3

StringTypes == {"string", "symbol", "keyword"}

\* an optional field (a C pointer that may be NULL)
NULL == <<>>
Some(v) == <<v>>

JANET_RECURSION_GUARD == 6
JANET_FRAME_SIZE == 4
JANET_FUNCDEF_FLAG_HASNAME == 524288
JANET_FUNCDEF_FLAG_HASSOURCE == 1048576
JANET_FUNCDEF_FLAG_HASDEFS == 2097152
JANET_FUNCDEF_FLAG_HASENVS == 4194304
JANET_FUNCDEF_FLAG_HASSOURCEMAP == 8388608
JANET_FIBER_FLAG_HASCHILD == 536870912
JANET_STACKFRAME_HASENV == 1073741824
JANET_STATUS_ALIVE == 14

\* flags & bit, flags | bit, flags & ~bit for a single-bit mask
HasBit(flags, bit) == (flags \div bit) % 2 = 1
SetBit(flags, bit) == IF HasBit(flags, bit) THEN flags ELSE flags + bit
ClearBit(flags, bit) == IF HasBit(flags, bit) THEN flags - bit ELSE flags

\* janet_fiber_status(fiber): the status byte held in bits 16..23 of the flags
janet_fiber_status(fiber) == (fiber.flags \div 65536) % 256

(***************************************************************************)
(* Equality of values (janet_equals): strings, symbols, keywords, tuples   *)
(* and structs by contents, everything else by address.                    *)
(***************************************************************************)
RECURSIVE janet_equals(_, _, _)
janet_equals(H, a, b) ==
    IF a.type # b.type THEN FALSE
    ELSE IF a.type = "tuple"
         THEN LET ta == H.obj[a.n].data
                  tb == H.obj[b.n].data
              IN  \/ a.n = b.n
                  \/ /\ Len(ta) = Len(tb)
                     /\ \A i \in 1..Len(ta) : janet_equals(H, ta[i], tb[i])
    ELSE IF a.type = "struct"
         THEN LET sa == H.obj[a.n].kvs
                  sb == H.obj[b.n].kvs
              IN  \/ a.n = b.n
                  \/ /\ Len(sa) = Len(sb)
                     /\ \A i \in 1..Len(sa) : \E j \in 1..Len(sb) :
                           /\ janet_equals(H, sa[i].key, sb[j].key)
                           /\ janet_equals(H, sa[i].value, sb[j].value)
    ELSE a = b

\* janet_table_get on a table held as a sequence of [key, value] slots; nil when absent
TableIndex(H, kvs, k) ==
    LET hits == { i \in 1..Len(kvs) : janet_equals(H, kvs[i].key, k) }
    IN  IF hits = {} THEN 0 ELSE CHOOSE i \in hits : \A j \in hits : i <= j

janet_table_get(H, kvs, k) ==
    LET i == TableIndex(H, kvs, k)
    IN  IF i = 0 THEN janet_wrap_nil ELSE kvs[i].value

\* janet_table_put: a nil key is ignored, a nil value removes the key, an equal key
\* has its value replaced
janet_table_put(H, kvs, k, v) ==
    LET i == TableIndex(H, kvs, k)
    IN  IF k.type = "nil" THEN kvs
        ELSE IF v.type = "nil"
             THEN IF i = 0 THEN kvs ELSE SubSeq(kvs, 1, i - 1) \o SubSeq(kvs, i + 1, Len(kvs))
        ELSE IF i = 0 THEN Append(kvs, [key |-> k, value |-> v])
        ELSE [kvs EXCEPT ![i] = [key |-> k, value |-> v]]

(***************************************************************************)
(* The writer.  st is the MarshalState: buf, seen, rreg, seen_envs,        *)
(* seen_defs, nextid; it also carries the heap the marshaled graph lives   *)
(* in (the writer sets flag bits in it), the error of a panic, and a       *)
(* record of what happened when: log, nest and maxnest are not read by     *)
(* any operator of the writer.                                             *)
(***************************************************************************)
\* Prevent stack overflows: the condition under which MARSH_STACKCHECK panics
MARSH_STACKCHECK(flags) == (flags % 65536) > JANET_RECURSION_GUARD

\* one more of the mutually recursive calls is active
entered(s, nest) == [s EXCEPT !.maxnest = IF nest > @ THEN nest ELSE @]

logged(s, what, v, start) ==
    [s EXCEPT !.log = Append(@, [what |-> what, v |-> v, start |-> start, at |-> Len(s.buf)])]

\* MARK_SEEN without the increment of nextid (a faulty variant, to test what C4 rests on)
MARK_SEEN_noinc(st, v, start) ==
    [logged(st, "mark", v, start) EXCEPT
        !.seen = janet_table_put(st.heap, @, v, janet_wrap_integer(st.nextid))]

\* MARK_SEEN(): janet_table_put(&st->seen, x, janet_wrap_integer(st->nextid++))
MARK_SEEN(st, v, start) ==
    [logged(st, "mark", v, start) EXCEPT
        !.seen = janet_table_put(st.heap, @, v, janet_wrap_integer(st.nextid)),
        !.nextid = @ + 1]

\* the position of p in a vector of pointers, 0 when it is not there
VecIndex(vec, p) ==
    LET hits == { i \in 1..Len(vec) : vec[i] = p }
    IN  IF hits = {} THEN 0 ELSE CHOOSE i \in hits : \A j \in hits : i <= j

\* Add function flags to janet functions
janet_func_addflags(st, d) ==
    LET def == st.heap.def[d]
        f1 == IF def.name # NULL THEN SetBit(def.flags, JANET_FUNCDEF_FLAG_HASNAME) ELSE def.flags
        f2 == IF def.source # NULL THEN SetBit(f1, JANET_FUNCDEF_FLAG_HASSOURCE) ELSE f1
        f3 == IF def.defs # NULL THEN SetBit(f2, JANET_FUNCDEF_FLAG_HASDEFS) ELSE f2
        f4 == IF def.environments # NULL THEN SetBit(f3, JANET_FUNCDEF_FLAG_HASENVS) ELSE f3
        f5 == IF def.sourcemap # NULL THEN SetBit(f4, JANET_FUNCDEF_FLAG_HASSOURCEMAP) ELSE f4
    IN  [st EXCEPT !.heap.def[d].flags = f5]

OptLen(opt) == IF opt = NULL THEN 0 ELSE Len(opt[1])
OptSeq(opt) == IF opt = NULL THEN <<>> ELSE opt[1]

RECURSIVE pushints(_, _)
pushints(st, ints) ==
    IF ints = <<>> THEN st ELSE pushints(pushint(st, Head(ints)), Tail(ints))

\* the four bytes of a bytecode word, least significant first
RECURSIVE pushbytecode(_, _)
pushbytecode(st, words) ==
    IF words = <<>> THEN st
    ELSE pushbytecode(pushbytes(st, << Head(words) % 256, Sar(Head(words), 8) % 256,
                                       Sar(Head(words), 16) % 256, Sar(Head(words), 24) % 256 >>),
                      Tail(words))

\* marshal source maps: start - current, end - start, current = end
RECURSIVE pushsourcemap(_, _, _)
pushsourcemap(st, maps, current) ==
    IF maps = <<>> THEN st
    ELSE pushsourcemap(pushint(pushint(st, Head(maps).start - current),
                               Head(maps).end - Head(maps).start),
                       Tail(maps), Head(maps).end)

RECURSIVE marshal_rec(_, _, _, _, _)
RECURSIVE marshal_one(_, _, _, _)
RECURSIVE marshal_values(_, _, _, _)
RECURSIVE marshal_kvs(_, _, _, _)
RECURSIVE marshal_one_env(_, _, _, _)
RECURSIVE marshal_envs(_, _, _, _)
RECURSIVE marshal_one_def(_, _, _, _)
RECURSIVE marshal_defs(_, _, _, _)
RECURSIVE marshal_one_fiber(_, _, _, _)
RECURSIVE marshal_frames(_, _, _, _, _, _)
RECURSIVE marshal_hook(_, _, _, _)
RECURSIVE marshal_one_abstract(_, _, _, _, _)
RECURSIVE marshal_reference(_, _, _, _, _)

\* for (i = 0; i < count; i++) marshal_one(st, data[i], flags)
marshal_values(st, vs, flags, nest) ==
    IF vs = <<>> THEN st
    ELSE marshal_values(marshal_rec("one", st, Head(vs), flags, nest), Tail(vs), flags, nest)

\* the key and the value of every used slot, in slot order
marshal_kvs(st, kvs, flags, nest) ==
    IF kvs = <<>> THEN st
    ELSE marshal_kvs(marshal_rec("one", marshal_rec("one", st, Head(kvs).key, flags, nest),
                                 Head(kvs).value, flags, nest),
                     Tail(kvs), flags, nest)

\* marshal_one_env that enters the environment in seen_envs after its offset is pushed
\* (a faulty variant, to test what C6 rests on)
marshal_one_env_marklate(st0, e, flags, nest) ==
    LET st == entered(st0, nest)
        i == VecIndex(st.seen_envs, e)
        env == st.heap.env[e]
        start == Len(st.buf)
    IN  IF st0.err # "" THEN st0
        ELSE IF MARSH_STACKCHECK(flags) THEN panic(st, "stack overflow")
        ELSE IF i # 0 THEN pushint(pushbyte(st, LB_FUNCENV_REF), i - 1)
        ELSE LET s1 == [logged(pushint(st, env.offset), "envmark",
                               janet_wrap_pointer("funcenv", e), start)
                           EXCEPT !.seen_envs = Append(@, e)]
                 s2 == pushint(s1, env.length)
                 s3 == IF env.offset # 0
                       THEN marshal_rec("one", s2, janet_wrap_pointer("fiber", env.fiber), flags + 1, nest + 1)
                       ELSE marshal_values(s2, SubSeq(env.values, 1, env.length), flags + 1, nest + 1)
             IN  IF s3.err # "" THEN s3
                 ELSE logged(s3, "envspan", janet_wrap_pointer("funcenv", e), start)

\* Marshal a function env
marshal_one_env(st0, e, flags, nest) ==
    LET st == entered(st0, nest)
        i == VecIndex(st.seen_envs, e)
        env == st.heap.env[e]
        start == Len(st.buf)
    IN  IF st0.err # "" THEN st0
        ELSE IF MARSH_STACKCHECK(flags) THEN panic(st, "stack overflow")
        ELSE IF i # 0 THEN pushint(pushbyte(st, LB_FUNCENV_REF), i - 1)
        ELSE LET s1 == [logged(st, "envmark", janet_wrap_pointer("funcenv", e), start)
                           EXCEPT !.seen_envs = Append(@, e)]
                 s2 == pushint(pushint(s1, env.offset), env.length)
                 s3 == IF env.offset # 0
                       THEN marshal_rec("one", s2, janet_wrap_pointer("fiber", env.fiber), flags + 1, nest + 1)
                       ELSE marshal_values(s2, SubSeq(env.values, 1, env.length), flags + 1, nest + 1)
             IN  IF s3.err # "" THEN s3
                 ELSE logged(s3, "envspan", janet_wrap_pointer("funcenv", e), start)

marshal_envs(st, es, flags, nest) ==
    IF es = <<>> THEN st
    ELSE marshal_envs(marshal_rec("env", st, Head(es), flags, nest), Tail(es), flags, nest)

\* Marshal a function def
marshal_one_def(st0, d, flags, nest) ==
    LET st == entered(st0, nest)
        i == VecIndex(st.seen_defs, d)
        me == janet_wrap_pointer("funcdef", d)
        start == Len(st.buf)
    IN  IF st0.err # "" THEN st0
        ELSE IF MARSH_STACKCHECK(flags) THEN panic(st, "stack overflow")
        ELSE IF i # 0
             THEN logged(pushint(pushbyte(st, LB_FUNCDEF_REF), i - 1), "defspan", me, start)
        ELSE LET s1 == [janet_func_addflags(st, d) EXCEPT !.seen_defs = Append(@, d)]
                 def == s1.heap.def[d]
                 has(bit) == HasBit(def.flags, bit)
                 s2 == pushints(s1, << def.flags, def.slotcount, def.arity,
                                       Len(def.constants), Len(def.bytecode) >>
                                    \o (IF has(JANET_FUNCDEF_FLAG_HASENVS)
                                        THEN << OptLen(def.environments) >> ELSE <<>>)
                                    \o (IF has(JANET_FUNCDEF_FLAG_HASDEFS)
                                        THEN << OptLen(def.defs) >> ELSE <<>>))
                 \* marshal_one of the name, of the source and of each constant
                 s3 == marshal_values(s2, IF has(JANET_FUNCDEF_FLAG_HASNAME)
                                          THEN << janet_wrap_string(def.name[1]) >> ELSE <<>>,
                                      flags, nest + 1)
                 s4 == marshal_values(s3, IF has(JANET_FUNCDEF_FLAG_HASSOURCE)
                                          THEN << janet_wrap_string(def.source[1]) >> ELSE <<>>,
                                      flags, nest + 1)
                 s5 == marshal_values(s4, def.constants, flags, nest + 1)
                 s6 == pushints(pushbytecode(s5, def.bytecode), OptSeq(def.environments))
                 s7 == marshal_defs(s6, OptSeq(def.defs), flags, nest + 1)
                 sourcemap(s) ==
                     IF s.err # "" THEN s
                     ELSE logged(pushsourcemap(s, IF has(JANET_FUNCDEF_FLAG_HASSOURCEMAP)
                                                  THEN def.sourcemap[1] ELSE <<>>, 0),
                                 "defspan", me, start)
             IN  sourcemap(s7)

marshal_defs(st, ds, flags, nest) ==
    IF ds = <<>> THEN st
    ELSE marshal_defs(marshal_rec("def", st, Head(ds), flags, nest), Tail(ds), flags, nest)

\* fiber->data[k] and the stack frame below offset i; slot k is data[k + 1]
FiberSlots(fiber, from, to) == [ k \in 1..(to - from) |-> fiber.data[from + k] ]

\* the frame loop of marshal_one_fiber: while (i > 0) { ... }
marshal_frames(st, f, i, j, flags, nest) ==
    IF st.err # "" \/ i <= 0 THEN st
    ELSE LET frame0 == st.heap.obj[f].frames[i]
             s1 == IF frame0.env # 0
                   THEN [st EXCEPT !.heap.obj[f].frames[i].flags =
                                       SetBit(@, JANET_STACKFRAME_HASENV)]
                   ELSE st
             frame == s1.heap.obj[f].frames[i]
         IN  IF frame.func = 0 THEN panic(s1, "cannot marshal fiber with c stackframe")
             ELSE LET s2 == pushints(s1, << frame.flags, frame.prevframe, frame.pc >>)
                      s3 == marshal_rec("one", s2, janet_wrap_pointer("function", frame.func),
                                        flags + 1, nest + 1)
                      s4 == IF frame.env # 0
                            THEN marshal_rec("env", s3, frame.env, flags + 1, nest + 1) ELSE s3
                      s5 == marshal_values(s4, FiberSlots(s1.heap.obj[f], i, j),
                                           flags + 1, nest + 1)
                  IN  marshal_frames(s5, f, frame.prevframe, i - JANET_FRAME_SIZE, flags, nest)

\* marshal_one_fiber without the test of the status (a faulty variant, to test what
\* C9 rests on)
marshal_one_fiber_anystatus(st, f, flags, nest) ==
    LET fiber == st.heap.obj[f]
        fflags == IF fiber.child # 0 THEN SetBit(fiber.flags, JANET_FIBER_FLAG_HASCHILD)
                  ELSE fiber.flags
    IN  IF st.err # "" THEN st
        ELSE IF MARSH_STACKCHECK(flags) THEN panic(st, "stack overflow")
        ELSE LET s1 == pushints(st, << fflags, fiber.frame, fiber.stackstart,
                                       fiber.stacktop, fiber.maxstack >>)
                 s2 == marshal_frames(s1, f, fiber.frame,
                                      fiber.stackstart - JANET_FRAME_SIZE, flags, nest)
             IN  IF fiber.child # 0
                 THEN marshal_rec("one", s2, janet_wrap_pointer("fiber", fiber.child), flags + 1, nest + 1)
                 ELSE s2

\* Marshal a fiber
marshal_one_fiber(st, f, flags, nest) ==
    LET fiber == st.heap.obj[f]
        fflags == IF fiber.child # 0 THEN SetBit(fiber.flags, JANET_FIBER_FLAG_HASCHILD)
                  ELSE fiber.flags
    IN  IF st.err # "" THEN st
        ELSE IF MARSH_STACKCHECK(flags) THEN panic(st, "stack overflow")
        ELSE IF janet_fiber_status(fiber) = JANET_STATUS_ALIVE
             THEN panic(st, "cannot marshal alive fiber")
        ELSE LET s1 == pushints(st, << fflags, fiber.frame, fiber.stackstart,
                                       fiber.stacktop, fiber.maxstack >>)
                 s2 == marshal_frames(s1, f, fiber.frame,
                                      fiber.stackstart - JANET_FRAME_SIZE, flags, nest)
             IN  IF fiber.child # 0
                 THEN marshal_rec("one", s2, janet_wrap_pointer("fiber", fiber.child), flags + 1, nest + 1)
                 ELSE s2

(***************************************************************************)
(* Abstract types registered by the host: the name, whether the type has   *)
(* a marshal and an unmarshal hook, and the fields the hooks write and     *)
(* read through janet_marshal_int / _byte / _janet and their unmarshal     *)
(* counterparts.                                                           *)
(***************************************************************************)
AbstractTypes ==
    << [name |-> <<105>>, marshal |-> TRUE, unmarshal |-> TRUE, shape |-> <<"int">>],
       [name |-> <<106>>, marshal |-> TRUE, unmarshal |-> TRUE, shape |-> <<"janet">>],
       [name |-> <<107>>, marshal |-> FALSE, unmarshal |-> FALSE, shape |-> <<>>],
       [name |-> <<108>>, marshal |-> TRUE, unmarshal |-> FALSE, shape |-> <<>>],
       [name |-> <<109>>, marshal |-> TRUE, unmarshal |-> TRUE, shape |-> <<>>] >>

\* janet_get_abstract_type(key): the index of the type registered under key, 0 for NULL
janet_get_abstract_type(key) ==
    LET hits == { i \in 1..Len(AbstractTypes) :
                    key.type = "keyword" /\ AbstractTypes[i].name = key.bytes }
    IN  IF hits = {} THEN 0 ELSE CHOOSE i \in hits : TRUE

\* at->marshal(abstract, &context): one janet_marshal_* call per field
marshal_hook(st, fields, flags, nest) ==
    IF fields = <<>> THEN st
    ELSE LET fld == Head(fields)
             s1 == CASE fld.f = "int" -> pushint(st, fld.v.n)
                      [] fld.f = "byte" -> pushbyte(st, fld.v.n)
                      [] fld.f = "janet" -> marshal_rec("one", st, fld.v, flags + 1, nest + 1)
         IN  marshal_hook(s1, Tail(fields), flags, nest)

marshal_one_abstract(st, v, flags, nest, start) ==
    LET abstract == st.heap.obj[v.n]
        at == AbstractTypes[abstract.at]
    IN  IF at.marshal
        THEN LET s1 == pushbyte(MARK_SEEN(st, v, start), LB_ABSTRACT)
                 s2 == marshal_rec("one", s1, janet_wrap_keyword(at.name), flags + 1, nest + 1)
                 s3 == pushint(s2, abstract.size)
             IN  IF s3.err # "" THEN s3 ELSE marshal_hook(s3, abstract.fields, flags, nest)
        ELSE panic(st, "try to marshal unregistered abstract type")

Reverse(q) == [ i \in 1..Len(q) |-> q[Len(q) + 1 - i] ]

\* the bytes of the double as the host holds them (u.bytes)
HostBytes(be, le) == IF be THEN Reverse(le) ELSE le

\* marshal_one, the JANET_NUMBER case of the reference types: the eight bytes pushed
RealWireBytes(be, v) ==
    LET u == HostBytes(be, v.bytes)
    IN  IF be THEN Reverse(u) ELSE u

\* the reference types of marshal_one, MARK_SEEN placed as in the source
marshal_reference(st, v, flags, nest, start) ==
    LET o == st.heap.obj[v.n] IN
    CASE v.type = "number" ->
           MARK_SEEN(pushbytes(pushbyte(st, LB_REAL), RealWireBytes(st.big_endian, v)), v, start)
      [] v.type \in StringTypes ->
           LET lb == IF v.type = "string" THEN LB_STRING
                     ELSE IF v.type = "symbol" THEN LB_SYMBOL ELSE LB_KEYWORD
           IN  pushbytes(pushint(pushbyte(MARK_SEEN(st, v, start), lb), Len(v.bytes)), v.bytes)
      [] v.type = "buffer" ->
           pushbytes(pushint(pushbyte(MARK_SEEN(st, v, start), LB_BUFFER), Len(o.data)), o.data)
      [] v.type = "array" ->
           marshal_values(pushint(pushbyte(MARK_SEEN(st, v, start), LB_ARRAY), Len(o.data)),
                          o.data, flags + 1, nest + 1)
      [] v.type = "tuple" ->
           LET s1 == pushint(pushint(pushbyte(st, LB_TUPLE), Len(o.data)), Sar(o.flag, 16))
               s2 == marshal_values(s1, o.data, flags + 1, nest + 1)
           IN  IF s2.err # "" THEN s2 ELSE MARK_SEEN(s2, v, start)
      [] v.type = "table" ->
           LET s1 == pushbyte(MARK_SEEN(st, v, start),
                              IF o.proto # 0 THEN LB_TABLE_PROTO ELSE LB_TABLE)
               s2 == pushint(s1, Len(o.kvs))
               s3 == IF o.proto # 0
                     THEN marshal_rec("one", s2, janet_wrap_pointer("table", o.proto), flags + 1, nest + 1)
                     ELSE s2
           IN  marshal_kvs(s3, o.kvs, flags + 1, nest + 1)
      [] v.type = "struct" ->
           LET s1 == pushint(pushbyte(st, LB_STRUCT), Len(o.kvs))
               s2 == marshal_kvs(s1, o.kvs, flags + 1, nest + 1)
           IN  IF s2.err # "" THEN s2 ELSE MARK_SEEN(s2, v, start)
      [] v.type = "abstract" -> marshal_one_abstract(st, v, flags, nest, start)
      [] v.type = "function" ->
           LET s1 == marshal_rec("def", pushbyte(st, LB_FUNCTION), o.def, flags, nest + 1)
           IN  IF s1.err # "" THEN s1
               ELSE marshal_envs(MARK_SEEN(s1, v, start),
                                 SubSeq(o.envs, 1, OptLen(s1.heap.def[o.def].environments)),
                                 flags + 1, nest + 1)
      [] v.type = "fiber" ->
           marshal_rec("fiber", pushbyte(MARK_SEEN(st, v, start), LB_FIBER), v.n, flags + 1, nest)
      [] OTHER -> panic(st, "no registry value and cannot marshal")

\* The main body of the marshaling function
marshal_one(st0, v, flags, nest) ==
    LET st == entered(st0, nest)
        start == Len(st.buf)
        check == janet_table_get(st.heap, st.seen, v)
        regname == IF st.rreg = NULL THEN janet_wrap_nil
                   ELSE janet_table_get(st.heap, st.rreg[1], v)
    IN  IF st0.err # "" THEN st0
        ELSE IF MARSH_STACKCHECK(flags) THEN panic(st, "stack overflow")
        ELSE IF v.type \in {"nil", "false", "true"} THEN pushbyte(st, 200 + JanetTypeCode(v.type))
        ELSE IF v.type = "number" /\ janet_checkintrange(v) THEN pushint(st, v.n)
        ELSE IF check.type = "number"
             THEN pushint(pushbyte(st, LB_REFERENCE), check.n)
        ELSE IF st.rreg # NULL /\ janet_checktype(regname, "symbol")
             THEN logged(pushbytes(pushint(pushbyte(MARK_SEEN(st, v, start), LB_REGISTRY),
                                           Len(regname.bytes)),
                                   regname.bytes),
                         "registry", v, start)
        ELSE LET s1 == marshal_reference(st, v, flags, nest, start)
             IN  IF s1.err # "" THEN s1 ELSE logged(s1, "span", v, start)

\* the recursive calls of the writer: marshal_one, marshal_one_def, marshal_one_env
\* and marshal_one_fiber call one another through this operator
marshal_rec(fn, st, p, flags, nest) ==
    CASE fn = "one" -> marshal_one(st, p, flags, nest)
      [] fn = "def" -> marshal_one_def(st, p, flags, nest)
      [] fn = "env" -> marshal_one_env(st, p, flags, nest)
      [] fn = "fiber" -> marshal_one_fiber(st, p, flags, nest)

\* the statements after marshal_one and after unmarshal_one that free the call's
\* table or array and its two vectors: a panic is a longjmp out of the call, and
\* then they are not run
clean_up(s) == IF s.err = "" THEN [s EXCEPT !.released = TRUE] ELSE s

\* janet_marshal: a fresh state around one marshal_one
janet_marshal(buf, H, v, rr, flags, be) ==
    clean_up(marshal_rec("one", [buf |-> buf, seen |-> <<>>, rreg |-> rr, seen_envs |-> <<>>,
                          seen_defs |-> <<>>, nextid |-> 0, heap |-> H, big_endian |-> be,
                          err |-> "", log |-> <<>>, maxnest |-> 0, released |-> FALSE],
                         v, flags, 1))

(***************************************************************************)
(* The reader.  us is the UnmarshalState (lookup, reg, lookup_envs,        *)
(* lookup_defs, the input bytes) together with the cursor (data), the      *)
(* out-parameters of the call that returned last (out, outdef, outenv,     *)
(* outfiber, ret) and the heap, in which the decoded objects are           *)
(* allocated after the objects that exist already.  uninit is the value    *)
(* that a read of a byte no statement has written yields in this run.      *)
(***************************************************************************)
janet_array_push(us, v) == [us EXCEPT !.lookup = Append(@, v)]

\* janet_gcalloc and friends: the new object gets the next address
alloc(us, o) == [us EXCEPT !.heap.obj = Append(@, o)]
newest(us) == Len(us.heap.obj)

\* the len bytes under the cursor
bytesat(us, d, len) == SubSeq(us.bytes, d + 1, d + len)

\* Assert a janet type
janet_asserttype(us, v, t) ==
    IF us.err = "" /\ ~janet_checktype(v, t) THEN panic(us, "expected type") ELSE us

\* LB_REAL with the bytes of the double read back in a big-endian build: u.bytes[5]
\* is assigned twice and u.bytes[3] never
RealHostBytes(us, d) ==
    IF us.big_endian
    THEN << byteat(us, d + 8), byteat(us, d + 7), byteat(us, d + 6), us.uninit,
            byteat(us, d + 4), byteat(us, d + 3), byteat(us, d + 2), byteat(us, d + 1) >>
    ELSE bytesat(us, d + 1, 8)

\* the double a host holds as the bytes u, in the wire order janet_wrap_number takes
RealOfHost(be, u) == janet_wrap_number(IF be THEN Reverse(u) ELSE u)

RECURSIVE unmarshal_rec(_, _, _, _)
RECURSIVE unmarshal_one(_, _, _)
RECURSIVE unmarshal_items(_, _, _, _, _)
RECURSIVE unmarshal_pairs(_, _, _, _, _)
RECURSIVE unmarshal_one_env(_, _, _)
RECURSIVE unmarshal_env_values(_, _, _, _, _)
RECURSIVE unmarshal_one_def(_, _, _)
RECURSIVE unmarshal_constants(_, _, _, _, _)
RECURSIVE unmarshal_defs(_, _, _, _, _)
RECURSIVE unmarshal_one_fiber(_, _, _)
RECURSIVE unmarshal_frames(_, _, _, _, _, _)
RECURSIVE unmarshal_slots(_, _, _, _, _, _)
RECURSIVE unmarshal_func_envs(_, _, _, _, _)
RECURSIVE unmarshal_hook(_, _, _, _, _)
RECURSIVE unmarshal_one_abstract(_, _, _)
RECURSIVE unmarshal_def_body(_, _, _, _)
RECURSIVE unmarshal_counted(_, _, _, _)

\* for (i = 0; i < len; i++) data = unmarshal_one(st, data, object->data + i, flags)
unmarshal_items(us, id, n, flags, nest) ==
    IF us.err # "" \/ n <= 0 THEN us
    ELSE LET s1 == unmarshal_rec("one", us, flags, nest)
         IN  IF s1.err # "" THEN s1
             ELSE unmarshal_items([s1 EXCEPT !.heap.obj[id].data = Append(@, s1.out)],
                                  id, n - 1, flags, nest)

\* a key, a value, and janet_table_put or janet_struct_put of the pair, len times
unmarshal_pairs(us, id, n, flags, nest) ==
    IF us.err # "" \/ n <= 0 THEN us
    ELSE LET s1 == unmarshal_rec("one", us, flags, nest)
             s2 == unmarshal_rec("one", s1, flags, nest)
         IN  IF s2.err # "" THEN s2
             ELSE unmarshal_pairs(
                    [s2 EXCEPT !.heap.obj[id].kvs = janet_table_put(s2.heap, @, s1.out, s2.out)],
                    id, n - 1, flags, nest)

\* at->unmarshal(p, &context): one janet_unmarshal_* call per field of the type,
\* each moving context.data (here the cursor of us) and none the caller's data
unmarshal_hook(us, id, shape, flags, nest) ==
    IF us.err # "" \/ shape = <<>> THEN us
    ELSE LET f == Head(shape)
             s1 == CASE f = "int" -> readint(us)
                      [] f = "byte" ->
                           IF MARSH_EOS(us, us.data) THEN panic(us, "unexpected end of source")
                           ELSE [fetched(us, us.data, us.data)
                                    EXCEPT !.ret = byteat(us, us.data), !.data = @ + 1]
                      [] f = "janet" -> unmarshal_rec("one", us, flags, nest + 1)
             fld == [f |-> f, v |-> IF f = "janet" THEN s1.out ELSE janet_wrap_integer(s1.ret)]
         IN  IF s1.err # "" THEN s1
             ELSE unmarshal_hook([s1 EXCEPT !.heap.obj[id].fields = Append(@, fld)],
                                 id, Tail(shape), flags, nest)

\* the cursor is the one after LB_ABSTRACT; a NULL return is null = TRUE
unmarshal_one_abstract(us, flags, nest) ==
    returned(us, "unmarshal_one_abstract",
    LET s1 == unmarshal_rec("one", us, flags + 1, nest + 1)
        at == janet_get_abstract_type(s1.out)
    IN  IF s1.err # "" THEN s1
        ELSE IF at = 0 THEN [s1 EXCEPT !.null = TRUE]
        ELSE IF AbstractTypes[at].unmarshal
             THEN LET s2 == readint(s1)
                      s3 == alloc(s2, [kind |-> "abstract", at |-> at, size |-> s2.ret,
                                       fields |-> <<>>])
                      s4 == unmarshal_hook(s3, newest(s3), AbstractTypes[at].shape, flags, nest)
                  IN  IF s4.err # "" THEN s4
                      ELSE [s4 EXCEPT !.out = janet_wrap_pointer("abstract", newest(s3)),
                                      !.data = s2.data]
        ELSE [s1 EXCEPT !.null = TRUE])

\* the LB_STRING .. LB_REGISTRY case without the push onto lookup (a faulty variant,
\* to test what C8 rests on)
unmarshal_bytes_nopush(us0, lead) ==
    LET s1 == readint([us0 EXCEPT !.data = @ + 1])
        len == s1.ret
        d == s1.data
        content == bytesat(s1, d, len)
        s2 == IF lead = LB_BUFFER THEN alloc(s1, [kind |-> "buffer", data |-> content]) ELSE s1
        out == CASE lead = LB_STRING -> janet_wrap_string(content)
                 [] lead = LB_SYMBOL -> janet_wrap_symbol(content)
                 [] lead = LB_KEYWORD -> janet_wrap_keyword(content)
                 [] lead = LB_REGISTRY ->
                      IF s1.reg # NULL
                      THEN janet_table_get(s1.heap, s1.reg[1], janet_wrap_symbol(content))
                      ELSE janet_wrap_nil
                 [] OTHER -> janet_wrap_pointer("buffer", newest(s2))
    IN  IF s1.err # "" THEN s1
        ELSE IF MARSH_EOS_AT(s1, d - 1, len) THEN panic(s1, "unexpected end of source")
        ELSE [s2 EXCEPT !.out = out, !.data = d + len]

\* LB_STRING, LB_SYMBOL, LB_BUFFER, LB_KEYWORD, LB_REGISTRY.  janet_string,
\* janet_symbol, janet_keyword, janet_symbolv and memcpy are handed the length as
\* read: a negative one is undefined behaviour, which in this run (ub) either
\* kills the process or copies nothing.  A registry record read without a registry
\* hands the length to nobody.
unmarshal_bytes(us0, lead) ==
    LET s1 == readint([us0 EXCEPT !.data = @ + 1])
        len == s1.ret
        d == s1.data
        content == bytesat(s1, d, len)
        copied == ~(lead = LB_REGISTRY /\ s1.reg = NULL)
        sf == IF copied /\ len > 0 THEN fetched(s1, d, d + len - 1) ELSE s1
        s2 == IF lead = LB_BUFFER THEN alloc(sf, [kind |-> "buffer", data |-> content]) ELSE sf
        out == CASE lead = LB_STRING -> janet_wrap_string(content)
                 [] lead = LB_SYMBOL -> janet_wrap_symbol(content)
                 [] lead = LB_KEYWORD -> janet_wrap_keyword(content)
                 [] lead = LB_REGISTRY ->
                      IF s1.reg # NULL
                      THEN janet_table_get(s1.heap, s1.reg[1], janet_wrap_symbol(content))
                      ELSE janet_wrap_nil
                 [] OTHER -> janet_wrap_pointer("buffer", newest(s2))
    IN  IF s1.err # "" THEN s1
        ELSE IF MARSH_EOS_AT(s1, d - 1, len) THEN panic(s1, "unexpected end of source")
        ELSE IF copied /\ len < 0 /\ s1.ub = "killed"
             THEN panic(s1, "killed: negative length")
        ELSE [janet_array_push(s2, out) EXCEPT !.out = out, !.data = d + len]

\* LB_REFERENCE that takes an id out of range for nil (a faulty variant, to test what
\* C11 rests on)
unmarshal_reference_lenient(us, len) ==
    IF len < 0 \/ len >= Len(us.lookup)
    THEN [noted(us, "lookup", len, Len(us.lookup), NULL) EXCEPT !.out = janet_wrap_nil]
    ELSE [noted(us, "lookup", len, Len(us.lookup), Some(us.lookup[len + 1]))
             EXCEPT !.out = us.lookup[len + 1]]

\* LB_REFERENCE, after the id is read
unmarshal_reference(us, len) ==
    IF len < 0 \/ len >= Len(us.lookup)
    THEN panic(noted(us, "lookup", len, Len(us.lookup), NULL), "invalid reference")
    ELSE [noted(us, "lookup", len, Len(us.lookup), Some(us.lookup[len + 1]))
             EXCEPT !.out = us.lookup[len + 1]]

\* LB_REFERENCE, LB_ARRAY, LB_TUPLE, LB_STRUCT, LB_TABLE, LB_TABLE_PROTO:
\* things that open with integers
unmarshal_counted(us0, lead, flags, nest) ==
    LET s1 == readint([us0 EXCEPT !.data = @ + 1])
        len == s1.ret
    IN  IF s1.err # "" THEN s1
        ELSE IF lead = LB_ARRAY
             THEN LET s2 == alloc(s1, [kind |-> "array", data |-> <<>>, count |-> len])
                      v == janet_wrap_pointer("array", newest(s2))
                      s3 == unmarshal_items(janet_array_push(s2, v), newest(s2), len,
                                            flags + 1, nest + 1)
                  IN  IF s3.err # "" THEN s3 ELSE [s3 EXCEPT !.out = v]
        ELSE IF lead = LB_TUPLE
             THEN LET s2 == readint(s1)
                      s3 == alloc(s2, [kind |-> "tuple", data |-> <<>>,
                                       flag |-> Shl32(s2.ret, 16)])
                      v == janet_wrap_pointer("tuple", newest(s3))
                      s4 == unmarshal_items(s3, newest(s3), len, flags + 1, nest + 1)
                  IN  IF s2.err # "" THEN s2
                      ELSE IF s4.err # "" THEN s4
                      ELSE [janet_array_push(s4, v) EXCEPT !.out = v]
        ELSE IF lead = LB_STRUCT
             THEN LET s2 == alloc(s1, [kind |-> "struct", kvs |-> <<>>])
                      v == janet_wrap_pointer("struct", newest(s2))
                      s3 == unmarshal_pairs(s2, newest(s2), len, flags + 1, nest + 1)
                  IN  IF s3.err # "" THEN s3
                      ELSE [janet_array_push(s3, v) EXCEPT !.out = v]
        ELSE IF lead = LB_REFERENCE THEN unmarshal_reference(s1, len)
        ELSE LET s2 == alloc(s1, [kind |-> "table", kvs |-> <<>>, proto |-> 0])
                 t == newest(s2)
                 v == janet_wrap_pointer("table", t)
                 s3 == janet_array_push(s2, v)
                 s4 == IF lead = LB_TABLE_PROTO
                       THEN LET p1 == unmarshal_rec("one", s3, flags + 1, nest + 1)
                                p2 == janet_asserttype(p1, p1.out, "table")
                            IN  IF p2.err # "" THEN p2
                                ELSE [p2 EXCEPT !.heap.obj[t].proto = p1.out.n]
                       ELSE s3
                 s5 == unmarshal_pairs(s4, t, len, flags + 1, nest + 1)
             IN  IF s5.err # "" THEN s5 ELSE [s5 EXCEPT !.out = v]

unmarshal_one(us0, flags, nest) ==
    returned(us0, "unmarshal_one",
    LET e == entered(us0, nest)
        d == e.data
        lead == byteat(e, d)
        \* the state once the lead byte is read
        us == fetched(e, d, d)
    IN  IF us0.err # "" THEN us0
        ELSE IF e.null THEN panic(e, "NULL cursor dereferenced")
        ELSE IF MARSH_STACKCHECK(flags) THEN panic(e, "stack overflow")
        ELSE IF MARSH_EOS(e, d) THEN panic(e, "unexpected end of source")
        ELSE CASE lead < 200 ->
                    LET s1 == readint(us)
                    IN  IF s1.err # "" THEN s1
                        ELSE [s1 EXCEPT !.out = janet_wrap_integer(s1.ret)]
               [] lead = LB_NIL -> [us EXCEPT !.out = janet_wrap_nil, !.data = d + 1]
               [] lead = LB_FALSE -> [us EXCEPT !.out = janet_wrap_false, !.data = d + 1]
               [] lead = LB_TRUE -> [us EXCEPT !.out = janet_wrap_true, !.data = d + 1]
               [] lead = LB_INTEGER ->
                    IF MARSH_EOS(us, d + 4) THEN panic(us, "unexpected end of source")
                    ELSE [fetched(us, d + 1, d + 4) EXCEPT
                            !.out = janet_wrap_integer(
                                      byteat(us, d + 4) + byteat(us, d + 3) * 256
                                      + byteat(us, d + 2) * 65536
                                      + Shl32(byteat(us, d + 1), 24)),
                            !.data = d + 5]
               [] lead = LB_REAL ->
                    IF MARSH_EOS(us, d + 8) THEN panic(us, "unexpected end of source")
                    ELSE LET v == RealOfHost(us.big_endian, RealHostBytes(us, d))
                         IN  [janet_array_push(fetched(us, d + 1, d + 8), v)
                                 EXCEPT !.out = v, !.data = d + 9]
               [] lead \in {LB_STRING, LB_SYMBOL, LB_BUFFER, LB_KEYWORD, LB_REGISTRY} ->
                    unmarshal_bytes(us, lead)
               [] lead = LB_FIBER ->
                    LET s1 == unmarshal_rec("fiber", [us EXCEPT !.data = d + 1], flags, nest)
                    IN  IF s1.err # "" THEN s1
                        ELSE [s1 EXCEPT !.out = janet_wrap_pointer("fiber", s1.outfiber)]
               [] lead = LB_FUNCTION ->
                    LET s1 == unmarshal_rec("def", [us EXCEPT !.data = d + 1],
                                            flags + 1, nest + 1)
                        s2 == alloc(s1, [kind |-> "function", def |-> s1.outdef,
                                         envs |-> <<>>])
                        f == newest(s2)
                        v == janet_wrap_pointer("function", f)
                        s3 == unmarshal_func_envs(janet_array_push(s2, v), f,
                                                  OptLen(s2.heap.def[s1.outdef].environments),
                                                  flags + 1, nest + 1)
                    IN  IF s1.err # "" THEN s1
                        ELSE IF s3.err # "" THEN s3
                        ELSE [s3 EXCEPT !.out = v]
               [] lead = LB_ABSTRACT ->
                    unmarshal_one_abstract([us EXCEPT !.data = d + 1], flags, nest)
               [] lead \in {LB_REFERENCE, LB_ARRAY, LB_TUPLE, LB_STRUCT, LB_TABLE,
                            LB_TABLE_PROTO} ->
                    unmarshal_counted(us, lead, flags, nest)
               [] OTHER -> panic(us, "unknown byte"))

\* (int32_t)(a + b) for b >= 0
Add32(a, b) ==
    IF a > INT32_MAX - b THEN ((a - INT32_MAX) + (b - INT32_MAX)) - 2 ELSE a + b

\* janet_verify(def), nonzero (TRUE) when the verifier rejects the definition
janet_verify(def) == Len(def.bytecode) = 0 \/ def.arity > def.slotcount

\* for (i = 0; i < length; i++) data = unmarshal_one(st, data, env->as.values + i, flags)
unmarshal_env_values(us, e, n, flags, nest) ==
    IF us.err # "" \/ n <= 0 THEN us
    ELSE LET s1 == unmarshal_rec("one", us, flags, nest)
         IN  IF s1.err # "" THEN s1
             ELSE unmarshal_env_values([s1 EXCEPT !.heap.env[e].values = Append(@, s1.out)],
                                       e, n - 1, flags, nest)

\* Unmarshal a funcenv
unmarshal_one_env(us0, flags, nest) ==
    returned(us0, "unmarshal_one_env",
    LET e0 == entered(us0, nest)
        d == e0.data
        \* the state once the lead byte is read
        us == fetched(e0, d, d)
    IN  IF us0.err # "" THEN us0
        ELSE IF e0.null THEN panic(e0, "NULL cursor dereferenced")
        ELSE IF MARSH_EOS(e0, d) THEN panic(e0, "unexpected end of source")
        ELSE IF byteat(us, d) = LB_FUNCENV_REF
             THEN LET s1 == readint([us EXCEPT !.data = d + 1])
                  IN  IF s1.err # "" THEN s1
                      ELSE IF s1.ret < 0 \/ s1.ret >= Len(s1.lookup_envs)
                           THEN panic(noted(s1, "lookup_envs", s1.ret, Len(s1.lookup_envs), NULL),
                                      "invalid funcenv reference")
                      ELSE [noted(s1, "lookup_envs", s1.ret, Len(s1.lookup_envs),
                                  Some(s1.lookup_envs[s1.ret + 1]))
                               EXCEPT !.outenv = s1.lookup_envs[s1.ret + 1]]
        ELSE LET e == Len(us.heap.env) + 1
                 s1 == [us EXCEPT !.heap.env = Append(@, [offset |-> 0, length |-> 0,
                                                          fiber |-> 0, values |-> <<>>]),
                                  !.lookup_envs = Append(@, e)]
                 s2 == readint(s1)
                 offset == s2.ret
                 s3 == readint(s2)
                 length == s3.ret
                 s4 == IF offset # 0
                       THEN LET f1 == unmarshal_rec("one", s3, flags, nest + 1)
                                f2 == janet_asserttype(f1, f1.out, "fiber")
                            IN  IF f2.err # "" THEN f2
                                ELSE LET env == f2.heap.env[e]
                                         f3 == [f2 EXCEPT !.heap.env[e].fiber = f1.out.n]
                                     IN  IF env.offset # 0 /\ env.offset # offset
                                         THEN panic(f3, "invalid funcenv offset")
                                         ELSE IF env.length # 0 /\ env.length # length
                                         THEN panic(f3, "invalid funcenv length")
                                         ELSE f3
                       ELSE IF length < 0 THEN panic(s3, "out of memory")
                       ELSE unmarshal_env_values(s3, e, length, flags, nest + 1)
             IN  IF s3.err # "" THEN s3
                 ELSE IF s4.err # "" THEN s4
                 ELSE [s4 EXCEPT !.heap.env[e].offset = offset,
                                 !.heap.env[e].length = length,
                                 !.outenv = e])

\* for (i = 0; i < def->environments_length; i++) unmarshal_one_env(..., &(func->envs[i]), ...)
unmarshal_func_envs(us, f, n, flags, nest) ==
    IF us.err # "" \/ n <= 0 THEN us
    ELSE LET s1 == unmarshal_rec("env", us, flags, nest)
         IN  IF s1.err # "" THEN s1
             ELSE unmarshal_func_envs([s1 EXCEPT !.heap.obj[f].envs = Append(@, s1.outenv)],
                                      f, n - 1, flags, nest)

unmarshal_constants(us, dd, n, flags, nest) ==
    IF us.err # "" \/ n <= 0 THEN us
    ELSE LET s1 == unmarshal_rec("one", us, flags, nest)
         IN  IF s1.err # "" THEN s1
             ELSE unmarshal_constants([s1 EXCEPT !.heap.def[dd].constants = Append(@, s1.out)],
                                      dd, n - 1, flags, nest)

unmarshal_defs(us, dd, n, flags, nest) ==
    IF us.err # "" \/ n <= 0 THEN us
    ELSE LET s1 == unmarshal_rec("def", us, flags, nest)
         IN  IF s1.err # "" THEN s1
             ELSE unmarshal_defs([s1 EXCEPT !.heap.def[dd].defs = Some(Append(@[1], s1.outdef))],
                                 dd, n - 1, flags, nest)

\* Unmarshal bytecode: four bytes a word, least significant first
RECURSIVE unmarshal_bytecode(_, _, _)
unmarshal_bytecode(us, dd, n) ==
    IF us.err # "" \/ n <= 0 THEN us
    ELSE IF MARSH_EOS(us, us.data + 3) THEN panic(us, "unexpected end of source")
    ELSE LET d == us.data
             word == byteat(us, d) + byteat(us, d + 1) * 256 + byteat(us, d + 2) * 65536
                     + Shl32(byteat(us, d + 3), 24)
         IN  unmarshal_bytecode([fetched(us, d, d + 3)
                                    EXCEPT !.heap.def[dd].bytecode = Append(@, word),
                                           !.data = d + 4],
                                dd, n - 1)

\* def->environments[i] = readint(st, &data)
RECURSIVE unmarshal_environments(_, _, _)
unmarshal_environments(us, dd, n) ==
    IF us.err # "" \/ n <= 0 THEN us
    ELSE LET s1 == readint(us)
         IN  IF s1.err # "" THEN s1
             ELSE unmarshal_environments(
                    [s1 EXCEPT !.heap.def[dd].environments = Some(Append(@[1], s1.ret))],
                    dd, n - 1)

\* a + b leaves the int32 range
Overflows(a, b) == (b > 0 /\ a > INT32_MAX - b) \/ (b < 0 /\ a < INT32_MIN - b)

\* (int32_t)(a + b) where the sum wraps
Sum32(a, b) ==
    IF b > 0 /\ a > INT32_MAX - b THEN ((a - INT32_MAX) + (b - INT32_MAX)) - 2
    ELSE IF b < 0 /\ a < INT32_MIN - b THEN ((a + INT32_MAX) + (b + INT32_MAX)) + 2
    ELSE a + b

\* Unmarshal source maps: current += delta for the start, current += delta for the end
RECURSIVE unmarshal_sourcemap(_, _, _, _)
unmarshal_sourcemap(us, dd, n, current) ==
    IF us.err # "" \/ n <= 0 THEN us
    ELSE LET s1 == readint(us)
             start == Sum32(current, s1.ret)
             s2 == readint(s1)
             end == Sum32(start, s2.ret)
         IN  IF s2.err # "" THEN s2
             ELSE IF (Overflows(current, s1.ret) \/ Overflows(start, s2.ret))
                     /\ s2.ub = "killed"
             THEN panic(s2, "killed: signed overflow")
             ELSE unmarshal_sourcemap(
                    [s2 EXCEPT !.heap.def[dd].sourcemap =
                                  Some(Append(@[1], [start |-> start, end |-> end]))],
                    dd, n - 1, end)

\* the fields of a new definition, read in order
unmarshal_def_body(us, dd, flags, nest) ==
    LET s1 == readint(us)
        s2 == readint(s1)
        s3 == readint(s2)
        s4 == readint(s3)
        s5 == readint(s4)
        dflags == s1.ret
        constants_length == s4.ret
        bytecode_length == s5.ret
        has(bit) == HasBit(dflags, bit)
        s6 == IF has(JANET_FUNCDEF_FLAG_HASENVS) THEN readint(s5) ELSE s5
        environments_length == IF has(JANET_FUNCDEF_FLAG_HASENVS) THEN s6.ret ELSE 0
        s7 == IF has(JANET_FUNCDEF_FLAG_HASDEFS) THEN readint(s6) ELSE s6
        defs_length == IF has(JANET_FUNCDEF_FLAG_HASDEFS) THEN s7.ret ELSE 0
        s8 == [s7 EXCEPT !.heap.def[dd].flags = dflags,
                         !.heap.def[dd].slotcount = s2.ret,
                         !.heap.def[dd].arity = s3.ret]
        \* the steps after the header, each applied to the state the step before it left
        name(s) ==
            IF has(JANET_FUNCDEF_FLAG_HASNAME)
            THEN LET n1 == unmarshal_rec("one", s, flags + 1, nest + 1)
                     n2 == janet_asserttype(n1, n1.out, "string")
                 IN  IF n2.err # "" THEN n2
                     ELSE [n2 EXCEPT !.heap.def[dd].name = Some(n1.out.bytes)]
            ELSE s
        source(s) ==
            IF s.err = "" /\ has(JANET_FUNCDEF_FLAG_HASSOURCE)
            THEN LET n1 == unmarshal_rec("one", s, flags + 1, nest + 1)
                     n2 == janet_asserttype(n1, n1.out, "string")
                 IN  IF n2.err # "" THEN n2
                     ELSE [n2 EXCEPT !.heap.def[dd].source = Some(n1.out.bytes)]
            ELSE s
        constants(s) ==
            IF s.err # "" THEN s
            ELSE IF constants_length < 0 THEN panic(s, "out of memory")
            ELSE unmarshal_constants(s, dd, constants_length, flags + 1, nest + 1)
        bytecode(s) ==
            IF s.err # "" THEN s
            ELSE IF bytecode_length < 0 THEN panic(s, "out of memory")
            ELSE unmarshal_bytecode(s, dd, bytecode_length)
        environments(s) ==
            IF s.err = "" /\ has(JANET_FUNCDEF_FLAG_HASENVS)
            THEN IF environments_length < 0 THEN panic(s, "out of memory")
                 ELSE unmarshal_environments([s EXCEPT !.heap.def[dd].environments = Some(<<>>)],
                                             dd, environments_length)
            ELSE s
        defs(s) ==
            IF s.err = "" /\ has(JANET_FUNCDEF_FLAG_HASDEFS)
            THEN IF defs_length < 0 THEN panic(s, "out of memory")
                 ELSE unmarshal_defs([s EXCEPT !.heap.def[dd].defs = Some(<<>>)],
                                     dd, defs_length, flags + 1, nest + 1)
            ELSE s
        sourcemap(s) ==
            IF s.err = "" /\ has(JANET_FUNCDEF_FLAG_HASSOURCEMAP)
            THEN unmarshal_sourcemap([s EXCEPT !.heap.def[dd].sourcemap = Some(<<>>)],
                                     dd, bytecode_length, 0)
            ELSE s
        verify(s) ==
            IF s.err # "" THEN s
            ELSE IF janet_verify(s.heap.def[dd]) THEN panic(s, "funcdef has invalid bytecode")
            ELSE [s EXCEPT !.outdef = dd]
        s9 == defs(environments(bytecode(constants(source(name(s8))))))
    IN  IF s7.err # "" THEN s7
        ELSE IF s9.err # "" THEN s9
        ELSE verify(sourcemap(s9))

\* unmarshal_one_def that resolves a reference to the definition decoded last
\* (a faulty variant, to test what C21 rests on)
unmarshal_one_def_lastdef(us0, flags, nest) ==
    returned(us0, "unmarshal_one_def",
    LET e0 == entered(us0, nest)
        d == e0.data
        \* the state once the lead byte is read
        us == fetched(e0, d, d)
    IN  IF us0.err # "" THEN us0
        ELSE IF e0.null THEN panic(e0, "NULL cursor dereferenced")
        ELSE IF MARSH_EOS(e0, d) THEN panic(e0, "unexpected end of source")
        ELSE IF byteat(us, d) = LB_FUNCDEF_REF
             THEN LET s1 == readint([us EXCEPT !.data = d + 1])
                  IN  IF s1.err # "" THEN s1
                      ELSE IF s1.ret < 0 \/ s1.ret >= Len(s1.lookup_defs)
                           THEN panic(noted(s1, "lookup_defs", s1.ret, Len(s1.lookup_defs), NULL),
                                      "invalid funcdef reference")
                      ELSE [noted(s1, "lookup_defs", s1.ret, Len(s1.lookup_defs),
                                  Some(s1.lookup_defs[Len(s1.lookup_defs)]))
                               EXCEPT !.outdef = s1.lookup_defs[Len(s1.lookup_defs)]]
        ELSE LET dd == Len(us.heap.def) + 1
                 s1 == [us EXCEPT !.heap.def =
                                     Append(@, [flags |-> 0, slotcount |-> 0, arity |-> 0,
                                                constants |-> <<>>, bytecode |-> <<>>,
                                                environments |-> NULL, defs |-> NULL,
                                                name |-> NULL, source |-> NULL,
                                                sourcemap |-> NULL]),
                                  !.lookup_defs = Append(@, dd)]
             IN  unmarshal_def_body(s1, dd, flags, nest))

\* Unmarshal a funcdef
unmarshal_one_def(us0, flags, nest) ==
    returned(us0, "unmarshal_one_def",
    LET e0 == entered(us0, nest)
        d == e0.data
        \* the state once the lead byte is read
        us == fetched(e0, d, d)
    IN  IF us0.err # "" THEN us0
        ELSE IF e0.null THEN panic(e0, "NULL cursor dereferenced")
        ELSE IF MARSH_EOS(e0, d) THEN panic(e0, "unexpected end of source")
        ELSE IF byteat(us, d) = LB_FUNCDEF_REF
             THEN LET s1 == readint([us EXCEPT !.data = d + 1])
                  IN  IF s1.err # "" THEN s1
                      ELSE IF s1.ret < 0 \/ s1.ret >= Len(s1.lookup_defs)
                           THEN panic(noted(s1, "lookup_defs", s1.ret, Len(s1.lookup_defs), NULL),
                                      "invalid funcdef reference")
                      ELSE [noted(s1, "lookup_defs", s1.ret, Len(s1.lookup_defs),
                                  Some(s1.lookup_defs[s1.ret + 1]))
                               EXCEPT !.outdef = s1.lookup_defs[s1.ret + 1]]
        ELSE LET dd == Len(us.heap.def) + 1
                 s1 == [us EXCEPT !.heap.def =
                                     Append(@, [flags |-> 0, slotcount |-> 0, arity |-> 0,
                                                constants |-> <<>>, bytecode |-> <<>>,
                                                environments |-> NULL, defs |-> NULL,
                                                name |-> NULL, source |-> NULL,
                                                sourcemap |-> NULL]),
                                  !.lookup_defs = Append(@, dd)]
             IN  unmarshal_def_body(s1, dd, flags, nest))

\* for (i = stack; i < stacktop; i++) data = unmarshal_one(st, data, fiber->data + i, flags)
unmarshal_slots(us, f, i, stacktop, flags, nest) ==
    IF us.err # "" \/ i >= stacktop THEN us
    ELSE LET s1 == unmarshal_rec("one", us, flags, nest)
         IN  IF s1.err # "" THEN s1
             ELSE unmarshal_slots([s1 EXCEPT !.heap.obj[f].data = ((i + 1) :> s1.out) @@ @],
                                  f, i + 1, stacktop, flags, nest)

\* the frame loop of unmarshal_one_fiber: while (stack > 0) { ... }
unmarshal_frames(us, f, stack, stacktop, flags, nest) ==
    IF us.err # "" \/ stack <= 0 THEN [us EXCEPT !.ret = stack]
    ELSE LET s1 == readint(us)
             s2 == readint(s1)
             s3 == readint(s2)
             frameflags0 == s1.ret
             prevframe == s2.ret
             pcdiff == s3.ret
             s4 == unmarshal_rec("one", s3, flags + 1, nest + 1)
             func == s4.out.n
             hasenv == HasBit(frameflags0, JANET_STACKFRAME_HASENV)
             frameflags == ClearBit(frameflags0, JANET_STACKFRAME_HASENV)
             offset == stack
             length == stacktop - stack
             \* the steps after the function is read, each applied to the state the step
             \* before it left
             asserttype(s) == janet_asserttype(s, s.out, "function")
             frameenv(s) ==
                 IF hasenv
                 THEN LET e1 == unmarshal_rec("env", s, flags + 1, nest + 1)
                          env == e1.heap.env[e1.outenv]
                      IN  IF e1.err # "" THEN e1
                          ELSE IF env.offset # 0 /\ env.offset # offset
                               THEN panic(e1, "funcenv offset does not match fiber frame")
                          ELSE IF env.length # 0 /\ env.length # length
                               THEN panic(e1, "funcenv length does not match fiber frame")
                          ELSE [e1 EXCEPT !.heap.env[e1.outenv].offset = offset,
                                          !.heap.env[e1.outenv].length = length]
                 ELSE s
             slots(s) ==
                 LET def == s.heap.def[s.heap.obj[func].def]
                 IN  IF s.err # "" THEN s
                     ELSE IF def.slotcount # stacktop - stack
                     THEN panic(s, "fiber stackframe size mismatch")
                     ELSE IF pcdiff < 0 \/ pcdiff >= Len(def.bytecode)
                     THEN panic(s, "fiber stackframe has invalid pc")
                     ELSE IF Overflows(prevframe, JANET_FRAME_SIZE) /\ s.ub = "killed"
                     THEN panic(s, "killed: signed overflow")
                     ELSE IF Add32(prevframe, JANET_FRAME_SIZE) > stack
                     THEN panic(s, "fibre stackframe does not align with previous frame")
                     ELSE unmarshal_slots(s, f, stack, stacktop, flags + 1, nest + 1)
             \* the frame is filled in with the environment frameenv returned; a frame
             \* record that does not lie in fiber->data is written outside the allocation
             frame(s, env) ==
                 IF s.err # "" THEN s
                 ELSE IF (stack < JANET_FRAME_SIZE \/ stack > s.heap.obj[f].capacity)
                         /\ s.ub = "killed"
                 THEN panic(s, "killed: write outside fiber->data")
                 ELSE unmarshal_frames(
                        [s EXCEPT !.heap.obj[f].frames =
                                     (stack :> [env |-> IF hasenv THEN env ELSE 0,
                                                pc |-> pcdiff, prevframe |-> prevframe,
                                                flags |-> frameflags, func |-> func]) @@ @],
                        f, prevframe, stack - JANET_FRAME_SIZE, flags, nest)
             next(s6) == frame(slots(s6), s6.outenv)
         IN  next(frameenv(asserttype(s4)))

\* Unmarshal a fiber
unmarshal_one_fiber(us, flags, nest) ==
    returned(us, "unmarshal_one_fiber",
    LET s0 == alloc(us, [kind |-> "fiber", flags |-> 0, frame |-> 0, stackstart |-> 0,
                         stacktop |-> 0, capacity |-> 0, maxstack |-> 0, data |-> <<>>,
                         frames |-> <<>>, child |-> 0])
        f == newest(s0)
        s1 == readint(janet_array_push(s0, janet_wrap_pointer("fiber", f)))
        s2 == readint(s1)
        frame == s2.ret
        s3 == readint(s2)
        s4 == readint(s3)
        s5 == readint(s4)
        s6 == [s5 EXCEPT !.heap.obj[f].flags = s1.ret,
                         !.heap.obj[f].stackstart = s3.ret,
                         !.heap.obj[f].stacktop = s4.ret,
                         !.heap.obj[f].maxstack = s5.ret]
        \* the steps after the header, each applied to the state the step before it left;
        \* the header fields do not change in them
        setup(s) ==
            LET fiber == s.heap.obj[f]
            IN  IF s.err # "" THEN s
                ELSE IF Overflows(frame, JANET_FRAME_SIZE) /\ s.ub = "killed"
                     THEN panic(s, "killed: signed overflow")
                ELSE IF Add32(frame, JANET_FRAME_SIZE) > fiber.stackstart
                        \/ fiber.stackstart > fiber.stacktop
                        \/ fiber.stacktop > fiber.maxstack
                     THEN panic(s, "fiber has incorrect stack setup")
                ELSE IF Add32(fiber.stacktop, 10) < 0 THEN panic(s, "out of memory")
                ELSE [s EXCEPT !.heap.obj[f].capacity = Add32(fiber.stacktop, 10)]
        frames(s) ==
            IF s.err # "" THEN s
            ELSE unmarshal_frames(s, f, frame, s.heap.obj[f].stackstart - JANET_FRAME_SIZE,
                                  flags, nest)
        \* unmarshal_frames returns the stack it stopped at in ret
        toomany(s) ==
            IF s.err = "" /\ s.ret < 0 THEN panic(s, "fiber has too many stackframes") ELSE s
        child(s) ==
            IF s.err # "" THEN s
            ELSE IF HasBit(s.heap.obj[f].flags, JANET_FIBER_FLAG_HASCHILD)
            THEN LET c1 == unmarshal_rec("one",
                               [s EXCEPT !.heap.obj[f].flags =
                                            ClearBit(@, JANET_FIBER_FLAG_HASCHILD)],
                               flags + 1, nest + 1)
                     c2 == janet_asserttype(c1, c1.out, "fiber")
                 IN  IF c2.err # "" THEN c2 ELSE [c2 EXCEPT !.heap.obj[f].child = c1.out.n]
            ELSE s
        return(s) ==
            IF s.err # "" THEN s
            ELSE [s EXCEPT !.heap.obj[f].frame = frame, !.outfiber = f]
    IN  IF us.err # "" THEN us
        ELSE IF s5.err # "" THEN s5
        ELSE return(child(toomany(frames(setup(s6))))))

\* the recursive calls of the reader: unmarshal_one, unmarshal_one_def,
\* unmarshal_one_env and unmarshal_one_fiber call one another through this operator
unmarshal_rec(fn, us, flags, nest) ==
    CASE fn = "one" -> unmarshal_one(us, flags, nest)
      [] fn = "def" -> unmarshal_one_def(us, flags, nest)
      [] fn = "env" -> unmarshal_one_env(us, flags, nest)
      [] fn = "fiber" -> unmarshal_one_fiber(us, flags, nest)

\* janet_unmarshal: a fresh state around one unmarshal_one; next is the cursor returned
janet_unmarshal(bytes, H, flags, rg, be, un, nl) ==
    clean_up(unmarshal_rec("one",
                 [bytes |-> bytes, data |-> 0, ret |-> 0, err |-> "", lookup |-> <<>>,
                  reg |-> rg, lookup_envs |-> <<>>, lookup_defs |-> <<>>, heap |-> H,
                  out |-> janet_wrap_nil, outdef |-> 0, outenv |-> 0, outfiber |-> 0,
                  null |-> FALSE, big_endian |-> be, uninit |-> un, ub |-> nl,
                  maxnest |-> 0, calls |-> 0, astray |-> <<>>, refs |-> <<>>, oob |-> <<>>,
                  released |-> FALSE],
                 flags, 1))

\* the state of a writer or reader that has not run
NoState == [err |-> ""]

(***************************************************************************)
(* The value graph: the values a value holds directly, as the writer       *)
(* walks them, and the values reachable from a root.                       *)
(***************************************************************************)
Range(q) == { q[i] : i \in DOMAIN q }

\* the values of an environment: its coroutine when on the stack, else its slots
EnvValues(H, e) ==
    IF H.env[e].offset # 0 THEN { janet_wrap_pointer("fiber", H.env[e].fiber) }
    ELSE Range(SubSeq(H.env[e].values, 1, H.env[e].length))

\* the constants of a definition and of the definitions nested in it
RECURSIVE DefValues(_, _)
DefValues(H, d) ==
    Range(H.def[d].constants)
    \cup UNION { DefValues(H, OptSeq(H.def[d].defs)[i]) : i \in 1..OptLen(H.def[d].defs) }

Children(H, v) ==
    LET o == H.obj[v.n] IN
    CASE v.type \in {"array", "tuple"} -> Range(o.data)
      [] v.type \in {"table", "struct"} ->
           { o.kvs[i].key : i \in DOMAIN o.kvs } \cup { o.kvs[i].value : i \in DOMAIN o.kvs }
           \cup (IF v.type = "table" /\ o.proto # 0
                 THEN { janet_wrap_pointer("table", o.proto) } ELSE {})
      [] v.type = "function" ->
           DefValues(H, o.def)
           \cup UNION { EnvValues(H, o.envs[i]) : i \in 1..OptLen(H.def[o.def].environments) }
      [] v.type = "fiber" ->
           Range(o.data)
           \cup { janet_wrap_pointer("function", o.frames[i].func) :
                    i \in { j \in DOMAIN o.frames : o.frames[j].func # 0 } }
           \cup UNION { EnvValues(H, o.frames[i].env) :
                          i \in { j \in DOMAIN o.frames : o.frames[j].env # 0 } }
           \cup (IF o.child # 0 THEN { janet_wrap_pointer("fiber", o.child) } ELSE {})
      [] v.type = "abstract" ->
           { o.fields[i].v : i \in { j \in DOMAIN o.fields : o.fields[j].f = "janet" } }
      [] OTHER -> {}

\* the reverse registry rr (NULL or a table) names v
Named(H, rr, v) ==
    rr # NULL /\ janet_checktype(janet_table_get(H, rr[1], v), "symbol")

\* the values reachable from the frontier without walking into a value that rr names
RECURSIVE ReachFrom(_, _, _, _)
ReachFrom(H, frontier, visited, rr) ==
    IF frontier = {} THEN visited
    ELSE LET v == CHOOSE w \in frontier : TRUE
             next == IF Named(H, rr, v) THEN {} ELSE Children(H, v)
         IN  ReachFrom(H, (frontier \cup next) \ (visited \cup {v}), visited \cup {v}, rr)

Reach(H, v) == ReachFrom(H, {v}, {}, NULL)

DataTypes == {"nil", "false", "true", "number", "string", "symbol", "keyword",
              "buffer", "array", "tuple", "table", "struct"}
MutableTypes == {"array", "table", "buffer"}

\* v is built from plain data only
PlainData(H, v) == \A w \in Reach(H, v) : w.type \in DataTypes

(***************************************************************************)
(* Deep equality with identity: a and b are walked side by side and every  *)
(* pair of containers met is recorded, so that the walk ends on cycles and *)
(* the pairs tell which original object each decoded object stands for.    *)
(* With exact = FALSE two numbers always match.                            *)
(***************************************************************************)
Flat(kvs) == [ i \in 1..(2 * Len(kvs)) |->
                 IF i % 2 = 1 THEN kvs[(i + 1) \div 2].key ELSE kvs[i \div 2].value ]

RECURSIVE Corr(_, _, _, _, _)
RECURSIVE CorrSeq(_, _, _, _, _)
CorrSeq(H, as, bs, R, exact) ==
    IF ~R.ok THEN R
    ELSE IF Len(as) # Len(bs) THEN [R EXCEPT !.ok = FALSE]
    ELSE IF as = <<>> THEN R
    ELSE CorrSeq(H, Tail(as), Tail(bs), Corr(H, Head(as), Head(bs), R, exact), exact)

Corr(H, a, b, R, exact) ==
    LET o == H.obj[a.n]
        p == H.obj[b.n]
        R1 == [R EXCEPT !.pairs = @ \cup {<<a.type, a.n, b.n>>}]
        bad == [R EXCEPT !.ok = FALSE]
    IN  IF ~R.ok THEN R
        ELSE IF a.type # b.type THEN bad
        ELSE IF a.type \notin {"buffer", "array", "tuple", "table", "struct"}
             THEN IF a = b \/ (~exact /\ a.type = "number") THEN R ELSE bad
        ELSE IF <<a.type, a.n, b.n>> \in R.pairs THEN R
        ELSE CASE a.type = "buffer" -> IF o.data = p.data THEN R1 ELSE bad
               [] a.type = "array" -> CorrSeq(H, o.data, p.data, R1, exact)
               [] a.type = "tuple" ->
                    IF o.flag = p.flag THEN CorrSeq(H, o.data, p.data, R1, exact) ELSE bad
               [] a.type = "struct" -> CorrSeq(H, Flat(o.kvs), Flat(p.kvs), R1, exact)
               [] a.type = "table" ->
                    IF (o.proto = 0) # (p.proto = 0) THEN bad
                    ELSE CorrSeq(H, Flat(o.kvs), Flat(p.kvs),
                                 IF o.proto = 0 THEN R1
                                 ELSE Corr(H, janet_wrap_pointer("table", o.proto),
                                           janet_wrap_pointer("table", p.proto), R1, exact),
                                 exact)

DeepEqual(H, a, b) == Corr(H, a, b, [ok |-> TRUE, pairs |-> {}], TRUE).ok

\* the pairs of mutable containers of a and b that stand at the same positions
Positions(H, a, b) ==
    { q \in Corr(H, a, b, [ok |-> TRUE, pairs |-> {}], FALSE).pairs : q[1] \in MutableTypes }

(***************************************************************************)
(* The heaps that are marshaled.  Heap(a, b) holds one object of every     *)
(* kind; a and b are the two values held by the array 1, the tuple 2, the  *)
(* table 3 and the struct 4, and are drawn from Pool, which holds every    *)
(* kind of leaf, containers that hold 1, 3 and themselves, and 1 itself.   *)
(***************************************************************************)
arr(i) == janet_wrap_pointer("array", i)
tup(i) == janet_wrap_pointer("tuple", i)
tab(i) == janet_wrap_pointer("table", i)
buffer(i) == janet_wrap_pointer("buffer", i)
abs(i) == janet_wrap_pointer("abstract", i)
fun(i) == janet_wrap_pointer("function", i)
fib(i) == janet_wrap_pointer("fiber", i)
cfun == janet_wrap_pointer("cfunction", 0)

kw(c) == janet_wrap_keyword(<<c>>)
sym(c) == janet_wrap_symbol(<<c>>)
str == janet_wrap_string(<<104, 105>>)
real == janet_wrap_number(<<1, 2, 3, 4, 5, 6, 240, 63>>)
half == janet_wrap_number(<<0, 0, 0, 0, 0, 0, 224, 63>>)

\* a table or struct built by putting the pairs in order
RECURSIVE PutAll(_, _)
PutAll(kvs, pairs) ==
    IF pairs = <<>> THEN kvs
    ELSE PutAll(IF Head(pairs)[2].type = "nil" THEN kvs
                ELSE janet_table_put([obj |-> <<>>], kvs, Head(pairs)[1], Head(pairs)[2]),
                Tail(pairs))

Array(d) == [kind |-> "array", data |-> d]
Tuple(d, fl) == [kind |-> "tuple", data |-> d, flag |-> fl]
Table(pairs, proto) == [kind |-> "table", kvs |-> PutAll(<<>>, pairs), proto |-> proto]
Struct(pairs) == [kind |-> "struct", kvs |-> PutAll(<<>>, pairs)]
Buffer(d) == [kind |-> "buffer", data |-> d]
Abstract(at, fields) == [kind |-> "abstract", at |-> at, size |-> 8, fields |-> fields]
Function(d, envs) == [kind |-> "function", def |-> d, envs |-> envs]

\* a coroutine with one frame, which runs func (0: a native frame) with env (0: none)
\* and holds one slot; status is the status byte
Fiber(status, func, env, child) ==
    [kind |-> "fiber", flags |-> status * 65536, frame |-> JANET_FRAME_SIZE,
     stackstart |-> 2 * JANET_FRAME_SIZE + 1, stacktop |-> 2 * JANET_FRAME_SIZE + 1,
     maxstack |-> 100, capacity |-> 4 * JANET_FRAME_SIZE,
     data |-> [ k \in 1..(4 * JANET_FRAME_SIZE) |->
                  IF k = JANET_FRAME_SIZE + 1 THEN janet_wrap_integer(42) ELSE janet_wrap_nil ],
     frames |-> (JANET_FRAME_SIZE :>
                   [env |-> env, pc |-> 0, prevframe |-> 0, flags |-> 0, func |-> func]),
     child |-> child]

FuncDef(constants, environments, defs, name, sourcemap) ==
    [flags |-> 0, slotcount |-> 1, arity |-> 1, constants |-> constants,
     bytecode |-> <<16909060, -1>>, environments |-> environments, defs |-> defs,
     name |-> name, source |-> NULL, sourcemap |-> sourcemap]

JANET_STATUS_PENDING == 3

\* how many definitions the chain of nested definitions holds, and how many arrays
\* the chain of nested arrays
ChainDefs == JANET_RECURSION_GUARD + 1
DeepArrays == JANET_RECURSION_GUARD + 2

\* 1: a definition with a constant of each kind, an environment, a nested definition,
\* a name and a source map; 2: the least definition
FirstDefs(a) ==
    << FuncDef(<<str, janet_wrap_integer(300), a>>, Some(<<0>>), Some(<<2>>), Some(<<102>>),
               Some(<<[start |-> 3, end |-> 9], [start |-> 5, end |-> 6]>>)),
       FuncDef(<<>>, NULL, NULL, NULL, NULL) >>

\* the first definition of the chain of nested definitions
ChainFirst == Len(FirstDefs(janet_wrap_nil)) + 1

BaseObjects(a, b) ==
    << Array(<<a, b>>),                                               \* 1
       Tuple(<<a, b>>, 0),                                            \* 2
       Table(<< <<kw(107), a>>, <<str, b>> >>, 0),                    \* 3
       Struct(<< <<kw(107), a>>, <<kw(106), b>> >>),                  \* 4
       Buffer(<<97, 98>>),                                            \* 5
       Array(<<arr(6), buffer(5), buffer(5)>>),                             \* 6
       Table(<< <<kw(115), tab(7)>>, <<kw(107), arr(1)>> >>, 8),      \* 7
       Table(<< <<kw(107), a>> >>, 0),                                \* 8
       Tuple(<<tup(2), tup(2), real, real, janet_wrap_integer(-70000)>>, 65536),  \* 9
       Struct(<< <<tup(2), arr(1)>>, <<str, half>> >>),               \* 10
       Abstract(1, <<[f |-> "int", v |-> janet_wrap_integer(5)]>>),   \* 11
       Abstract(2, <<[f |-> "janet", v |-> arr(1)]>>),                \* 12
       Abstract(3, <<>>),                                             \* 13
       Abstract(4, <<>>),                                             \* 14
       Array(<<abs(11), str, str>>),                                  \* 15
       Function(1, <<1>>),                                            \* 16
       Function(ChainFirst, <<>>),                                    \* 17
       Fiber(JANET_STATUS_PENDING, 19, 2, 0),                         \* 18
       Function(2, <<>>),                                             \* 19
       Fiber(JANET_STATUS_ALIVE, 19, 0, 0),                           \* 20
       Fiber(JANET_STATUS_PENDING, 0, 0, 0),                          \* 21
       Fiber(JANET_STATUS_PENDING, 19, 0, 18),                        \* 22
       Array(<<str, fib(20)>>) >>                                     \* 23

\* the first array of the chain of nested arrays
DeepFirst == Len(BaseObjects(janet_wrap_nil, janet_wrap_nil)) + 1

\* DeepFirst .. DeepFirst + DeepArrays - 1: each array holds the next, the last is empty
DeepObjects ==
    [ k \in 1..DeepArrays |->
        Array(IF k = DeepArrays THEN <<>> ELSE <<arr(DeepFirst + k)>>) ]

MoreFirst == DeepFirst + DeepArrays

more(i) == MoreFirst + i - 1

MoreObjects ==
    << Array(<<cfun, cfun, janet_wrap_true, arr(6), arr(6)>>),             \* more(1)
       Array(<<buffer(5), buffer(more(3)), arr(more(4)), arr(more(5)), arr(more(4))>>),  \* more(2)
       Buffer(<<97, 98>>),                                                 \* more(3)
       Array(<<>>),                                                        \* more(4)
       Array(<<>>),                                                        \* more(5)
       Abstract(5, <<>>),                                                  \* more(6)
       Array(<<abs(more(6)), buffer(5), buffer(5)>>),                            \* more(7)
       Function(ChainFirst + ChainDefs, <<3>>),                            \* more(8)
       Fiber(JANET_STATUS_PENDING, 19, 0, 21),                             \* more(9)
       Table(<< <<kw(107), fib(21)>> >>, 0),                               \* more(10)
       Function(1, <<1>>),                                                 \* more(11)
       Array(<<fun(16), fun(more(11))>>),                                  \* more(12)
       \* a coroutine of two frames: the second frame's record is at 5..8, its slot at 9
       [Fiber(JANET_STATUS_PENDING, 19, 0, 0) EXCEPT
          !.frame = 2 * JANET_FRAME_SIZE + 1,
          !.stackstart = 3 * JANET_FRAME_SIZE + 2,
          !.stacktop = 3 * JANET_FRAME_SIZE + 2,
          !.data[2 * JANET_FRAME_SIZE + 2] = janet_wrap_string(<<104, 105>>),
          !.frames = @ @@ ((2 * JANET_FRAME_SIZE + 1) :>
                             [env |-> 0, pc |-> 1, prevframe |-> JANET_FRAME_SIZE,
                              flags |-> 0, func |-> 19])],                 \* more(13)
       \* a coroutine with one value pushed above stackstart
       [Fiber(JANET_STATUS_PENDING, 19, 0, 0) EXCEPT
          !.stacktop = @ + 1,
          !.data[2 * JANET_FRAME_SIZE + 2] = janet_wrap_integer(77)],      \* more(14)
       Function(ChainFirst + ChainDefs + 1, <<>>) >>                       \* more(15)

\* ChainFirst ..: the chain of nested definitions; then a definition that captures
\* one environment; the last: a definition with a source, a constant that is not an
\* integer and a source map whose second start lies before the first end
Defs(a) ==
    FirstDefs(a)
    \o [ k \in 1..ChainDefs |->
           FuncDef(<<>>, NULL,
                   IF k = ChainDefs THEN NULL ELSE Some(<<ChainFirst + k>>), NULL, NULL) ]
    \o << FuncDef(<<>>, Some(<<0>>), NULL, NULL, NULL),
          [FuncDef(<<real, kw(107)>>, NULL, NULL, NULL,
                   Some(<<[start |-> 7, end |-> 7], [start |-> 2, end |-> 300]>>))
             EXCEPT !.source = Some(<<115, 114, 99>>)] >>

\* 1: detached, holds the function that captures it; 2, 3: on the stacks of 18 and 20
Envs(b) ==
    << [offset |-> 0, length |-> 2, fiber |-> 0, values |-> <<b, fun(16)>>],
       [offset |-> JANET_FRAME_SIZE, length |-> 1, fiber |-> 18, values |-> <<>>],
       [offset |-> JANET_FRAME_SIZE, length |-> 1, fiber |-> 20, values |-> <<>>] >>

Heap(a, b) ==
    [obj |-> BaseObjects(a, b) \o DeepObjects \o MoreObjects, def |-> Defs(a), env |-> Envs(b)]

Leaves == { janet_wrap_nil, janet_wrap_false, janet_wrap_true, janet_wrap_integer(7),
            janet_wrap_integer(-70000), real, str, sym(99), kw(107) }

Pool == Leaves \cup { arr(1), tab(3), buffer(5), arr(6) }

DefaultA == janet_wrap_integer(5)
DefaultB == str

Roots ==
    Leaves \cup { half, cfun }
    \cup { [type |-> Heap(DefaultA, DefaultB).obj[i].kind, n |-> i, bytes |-> <<>>] :
             i \in 1..Len(Heap(DefaultA, DefaultB).obj) }

\* the reverse registry of the writer and forward registries of the reader
ReverseRegistry ==
    << [key |-> cfun, value |-> sym(99)],
       [key |-> janet_wrap_true, value |-> sym(116)],
       [key |-> janet_wrap_integer(7), value |-> sym(110)],
       [key |-> arr(6), value |-> sym(114)],
       [key |-> fib(20), value |-> sym(102)],
       [key |-> abs(13), value |-> sym(117)],
       [key |-> half, value |-> sym(104)],
       [key |-> tup(2), value |-> sym(112)],
       [key |-> str, value |-> kw(115)] >>

ForwardRegistry ==
    << [key |-> sym(99), value |-> cfun],
       [key |-> sym(116), value |-> janet_wrap_true],
       [key |-> sym(110), value |-> janet_wrap_integer(7)],
       [key |-> sym(114), value |-> arr(6)],
       [key |-> sym(102), value |-> fib(20)],
       [key |-> sym(104), value |-> half],
       [key |-> sym(112), value |-> tup(2)] >>

OtherRegistry == << [key |-> sym(99), value |-> str] >>

Registries == { <<NULL, NULL>>, <<Some(ReverseRegistry), Some(ForwardRegistry)>>,
                <<Some(ReverseRegistry), NULL>>, <<Some(ReverseRegistry), Some(OtherRegistry)>> }

\* what a read of the byte that no statement wrote can yield
UninitBytes == {0, 255}

\* what undefined behaviour (a negative length handed to memcpy or janet_string, an
\* int32 sum that overflows) does in a run: the process is killed, or the operation
\* goes on (nothing is copied, the sum wraps)
Undefined == {"killed", "goes on"}

Init ==
    /\ pc = "init"
    /\ big_endian \in BOOLEAN
    /\ \/ \E a \in Pool, b \in Pool :
            /\ heap = Heap(a, b)
            /\ x \in {arr(1), tup(2), tab(3), [type |-> "struct", n |-> 4, bytes |-> <<>>]}
            /\ rreg = NULL
            /\ reg = NULL
       \/ /\ heap = Heap(DefaultA, DefaultB)
          /\ x \in Roots
          /\ \E r \in Registries : rreg = r[1] /\ reg = r[2]
    /\ mst = NoState
    /\ ust = NoState
    /\ ival = 0
    /\ ibuf = <<>>
    /\ ires = NoState
    /\ y = janet_wrap_nil

\* janet_marshal(buf, x, rreg, 0) on an empty buffer
Marshal ==
    /\ pc = "init"
    /\ pc' = "marshaled"
    /\ mst' = janet_marshal(<<>>, heap, x, rreg, 0, big_endian)
    /\ heap' = mst'.heap
    /\ UNCHANGED <<big_endian, x, rreg, reg, ust, ival, ibuf, ires, y>>

\* janet_unmarshal(bytes, len, 0, reg, NULL) on the bytes janet_marshal returned
Unmarshal ==
    /\ pc = "marshaled"
    /\ mst.err = ""
    /\ pc' = "done"
    /\ \E un \in UninitBytes, nl \in Undefined :
          ust' = janet_unmarshal(mst.buf, heap, 0, reg, big_endian, un, nl)
    /\ heap' = ust'.heap
    /\ UNCHANGED <<big_endian, x, rreg, reg, mst, ival, ibuf, ires, y>>

Next == Marshal \/ Unmarshal

Spec == Init /\ [][Next]_vars

(***************************************************************************)
(* Properties of a marshal followed by an unmarshal of its output.         *)
(***************************************************************************)
\* the entries of the writer's log that are MARK_SEENs, in the order of their ids
Marked == SelectSeq(mst.log, LAMBDA e : e.what = "mark")

\* the MARK_SEEN e is the one of a registry hit
IsRegistryHit(e) ==
    \E j \in DOMAIN mst.log :
        mst.log[j].what = "registry" /\ mst.log[j].v = e.v /\ mst.log[j].start = e.start

\* C3: for every value built from nil, booleans, integers, non-integral numbers,
\* strings, symbols, keywords, buffers, arrays, tuples, tables and structs,
\* unmarshal(marshal(v)) succeeds and yields a value deep-equal to v.
C3_RoundTripDeepEqual ==
    (pc = "done" /\ rreg = NULL /\ PlainData(heap, x)) =>
        (ust.err = "" /\ DeepEqual(heap, x, ust.out))

\* C4: after a round trip of plain data, two positions of the decoded graph hold the
\* same array, table or buffer exactly when the corresponding positions of the
\* original graph do, the positions inside a container that holds itself included,
\* and every decoded container is a new object.
C4_IdentityPreserved ==
    (pc = "done" /\ rreg = NULL /\ PlainData(heap, x)) =>
        /\ ust.err = ""
        /\ Corr(heap, x, ust.out, [ok |-> TRUE, pairs |-> {}], FALSE).ok
        /\ \A p, q \in Positions(heap, x, ust.out) : (p[2] = q[2]) <=> (p[3] = q[3])
        /\ \A p \in Positions(heap, x, ust.out) : p[3] > Len(mst.heap.obj)

\* the table t with t[:self] = t was decoded to a table whose :self entry is itself
C4_Witness ==
    /\ pc = "done"
    /\ rreg = NULL
    /\ x = tab(7)
    /\ ust.err = ""
    /\ ust.out.n > Len(mst.heap.obj)
    /\ janet_table_get(heap, heap.obj[ust.out.n].kvs, kw(115)) = ust.out

\* C5: the value to which the writer gives id n is the n-th value the reader pushes
\* onto lookup when it decodes the writer's output (a value of the same kind, or
\* the registry's value for a registry hit); no reference is out of range, and a
\* reader that reaches the end has pushed as many values as the writer marked.
C5_Lockstep ==
    pc = "done" =>
        /\ ust.err # "invalid reference"
        /\ ust.err = "" => Len(ust.lookup) = mst.nextid
        /\ \A n \in 1..Len(ust.lookup) :
              /\ n <= mst.nextid
              /\ IsRegistryHit(Marked[n]) \/ ust.lookup[n].type = Marked[n].v.type

(***************************************************************************)
(* Properties of the writer alone.                                         *)
(***************************************************************************)
BeforeKinds == {"array", "table", "buffer", "fiber", "abstract"}
AfterKinds == {"tuple", "struct"}

\* entry i of the log is a MARK_SEEN of a value whose body the writer emits
MarksBody(i) ==
    i \in DOMAIN mst.log /\ mst.log[i].what = "mark" /\ ~IsRegistryHit(mst.log[i])

\* entry i is a MARK_SEEN made when all the bytes of its value are out: the call
\* returns right after it, with no byte more
MarkedAfterBody(i) ==
    /\ i < Len(mst.log)
    /\ mst.log[i + 1].what = "span"
    /\ mst.log[i + 1].v = mst.log[i].v
    /\ mst.log[i + 1].start = mst.log[i].start
    /\ mst.log[i + 1].at = mst.log[i].at
    /\ mst.log[i].at > mst.log[i].start

\* entry i is a MARK_SEEN made before any byte of its value is out
MarkedBeforeBody(i) == mst.log[i].at = mst.log[i].start

\* the entries of the log made while the environments of the function marked at
\* entry i were emitted: those up to the end of the function's marshal_one
EnvEntries(i) ==
    { j \in (i + 1)..Len(mst.log) :
         /\ mst.log[j].what \in {"envmark", "envspan"}
         /\ \A k \in (i + 1)..j :
               ~(mst.log[k].what = "span" /\ mst.log[k].v = mst.log[i].v) }

\* entry i is the MARK_SEEN of a function made when its lead byte and its definition
\* are out and none of its environments is
MarkedAfterDef(i) ==
    /\ i > 1
    /\ mst.log[i - 1].what = "defspan"
    /\ mst.log[i - 1].v = janet_wrap_pointer("funcdef", heap.obj[mst.log[i].v.n].def)
    /\ mst.log[i - 1].start = mst.log[i].start + 1
    /\ mst.log[i - 1].at = mst.log[i].at
    /\ \A j \in EnvEntries(i) : mst.log[j].start >= mst.log[i].at

EnvsMarkedBefore ==
    \A i \in DOMAIN mst.log : mst.log[i].what = "envmark" => MarkedBeforeBody(i)

\* C6 (as amended): the entry of a tuple or a struct is committed after its whole
\* body, the entry of a function after its definition and before its environments,
\* and the entry of an array, table, buffer, coroutine or abstract, and the
\* seen_envs entry of an environment, before any part of the body.
C6_MarkingOrder ==
    pc # "init" =>
        /\ \A i \in DOMAIN mst.log : MarksBody(i) =>
              /\ mst.log[i].v.type \in AfterKinds => MarkedAfterBody(i)
              /\ mst.log[i].v.type = "function" => MarkedAfterDef(i)
              /\ mst.log[i].v.type \in BeforeKinds => MarkedBeforeBody(i)
        /\ EnvsMarkedBefore

\* a function was marked, and one of its environments emitted after that
C6_Witness ==
    /\ pc = "marshaled"
    /\ mst.err = ""
    /\ \E i \in DOMAIN mst.log :
          /\ MarksBody(i)
          /\ mst.log[i].v.type = "function"
          /\ MarkedAfterDef(i)
          /\ \E j \in EnvEntries(i) : mst.log[j].at > mst.log[i].at

\* C6 (as stated): the entry of a tuple, a struct or a function is committed only
\* after the value's whole body has been emitted; the others before the body.
C6_FunctionMarkedAfterBody ==
    pc # "init" =>
        /\ \A i \in DOMAIN mst.log : MarksBody(i) =>
              /\ mst.log[i].v.type \in AfterKinds \cup {"function"} => MarkedAfterBody(i)
              /\ mst.log[i].v.type \in BeforeKinds => MarkedBeforeBody(i)
        /\ EnvsMarkedBefore

\* the symbol under which the reverse registry holds x
RegName == janet_table_get(heap, rreg[1], x)

\* the value under which the forward registry holds the name of v, nil without registry
Expected(v) ==
    IF reg = NULL THEN janet_wrap_nil
    ELSE janet_table_get(heap, reg[1], janet_table_get(heap, rreg[1], v))

\* the one record LB_REGISTRY, length of the name, name
RegistryRecord(name) == <<LB_REGISTRY, Len(name.bytes)>> \o name.bytes

Primitive(v) ==
    v.type \in {"nil", "false", "true"} \/ (v.type = "number" /\ janet_checkintrange(v))

\* C7 (as amended): for every value v that the reverse registry maps to a symbol s
\* and that is not nil, a boolean or an integral number in the int32 range,
\* marshal(v, R) emits exactly LB_REGISTRY, varint(length of s), the bytes of s.
C7_RegistryRecord ==
    (pc # "init" /\ Named(heap, rreg, x) /\ ~Primitive(x)) =>
        (mst.err = "" /\ mst.buf = RegistryRecord(RegName))

\* a non-integral number and a C function of the registry were emitted by name
C7_Witness ==
    /\ pc = "marshaled"
    /\ Named(heap, rreg, x)
    /\ x \in {half, cfun}
    /\ mst.buf = RegistryRecord(RegName)

\* C7 (as stated): whatever the kind of v, nil, booleans and integral numbers included
C7_RegistryRecordAnyKind ==
    (pc # "init" /\ Named(heap, rreg, x)) =>
        (mst.err = "" /\ mst.buf = RegistryRecord(RegName))

\* C8: decoding an LB_REGISTRY record yields the value the forward registry holds
\* under the record's name, nil when there is no registry or no such name; the
\* result is pushed onto lookup under the id the writer gave the value, and a later
\* back-reference to that id yields the same result.
C8_RegistryDecode ==
    pc = "done" =>
        /\ (Named(heap, rreg, x) /\ ~Primitive(x)) =>
              /\ ust.err = ""
              /\ ust.out = Expected(x)
              /\ ust.lookup = <<Expected(x)>>
        /\ (\A n \in 1..mst.nextid : Marked[n].v.type = "abstract" => IsRegistryHit(Marked[n])) =>
              \A n \in 1..mst.nextid : IsRegistryHit(Marked[n]) =>
                  (n <= Len(ust.lookup) => ust.lookup[n] = Expected(Marked[n].v))
        /\ (x = arr(more(1)) /\ rreg # NULL) =>
              /\ ust.err = ""
              /\ heap.obj[ust.out.n].data = << Expected(cfun), Expected(cfun), janet_wrap_true,
                                              Expected(arr(6)), Expected(arr(6)) >>

\* an array with two registry values, each held twice, was decoded with a registry,
\* and again with none
C8_Witness ==
    /\ pc = "done"
    /\ x = arr(more(1))
    /\ ust.err = ""
    /\ \/ reg # NULL /\ heap.obj[ust.out.n].data[2] = cfun /\ heap.obj[ust.out.n].data[5] = arr(6)
       \/ reg = NULL /\ rreg # NULL /\ heap.obj[ust.out.n].data[2] = janet_wrap_nil

\* v is a coroutine that is alive or has a frame with no function
AliveOrNative(v) ==
    /\ v.type = "fiber"
    /\ \/ janet_fiber_status(heap.obj[v.n]) = JANET_STATUS_ALIVE
       \/ \E i \in DOMAIN heap.obj[v.n].frames : heap.obj[v.n].frames[i].func = 0

\* C9 (as amended): marshal fails on every value graph that reaches, other than
\* through a value the reverse registry names, a coroutine that is alive or has a
\* native frame and that the registry does not name.
C9_AliveOrNativeFails ==
    (pc # "init" /\ \E w \in ReachFrom(heap, {x}, {}, rreg) :
                        AliveOrNative(w) /\ ~Named(heap, rreg, w))
        => mst.err # ""

\* an alive coroutine held by an array stopped the writer
C9_Witness ==
    /\ pc = "marshaled"
    /\ x = arr(23)
    /\ rreg = NULL
    /\ mst.err = "cannot marshal alive fiber"

\* C9 (as stated): marshal never returns an encoding of a value graph that reaches
\* a coroutine that is alive or has a native frame.
C9_NeverReturnsOnAliveOrNative ==
    (pc # "init" /\ \E w \in Reach(heap, x) : AliveOrNative(w)) => mst.err # ""

\* C10: neither the writer nor the reader nests more than JANET_RECURSION_GUARD + 1
\* marshal_one / marshal_one_def / marshal_one_env calls (unmarshal_ for the
\* reader) without failing with 'stack overflow'.
C10_NestingBounded ==
    /\ (pc # "init" /\ mst.maxnest > JANET_RECURSION_GUARD + 1) => mst.err = "stack overflow"
    /\ (pc = "done" /\ ust.maxnest > JANET_RECURSION_GUARD + 1) => ust.err = "stack overflow"

(***************************************************************************)
(* The integer codec on its own: an integer is pushed after an arbitrary   *)
(* prefix and read back from the offset where the prefix ends.             *)
(***************************************************************************)
IntWindow == 2

IntBoundaries == {INT32_MIN, -8193, -8192, -129, -1, 0, 127, 128, 191, 8191, 8192,
                  1000000, INT32_MAX}

IntSamples ==
    { b + d : b \in IntBoundaries \ {INT32_MIN, INT32_MAX}, d \in (-IntWindow)..IntWindow }
    \cup { INT32_MIN + d : d \in 0..IntWindow }
    \cup { INT32_MAX - d : d \in 0..IntWindow }

IntPrefixes == { <<>>, <<LB_ARRAY>>, <<LB_INTEGER, 128>> }

InitInt ==
    /\ pc = "int"
    /\ ival \in IntSamples
    /\ ibuf \in IntPrefixes
    /\ ires = [bytes |-> <<>>, data |-> 0, ret |-> 0, err |-> "", start |-> 0,
               null |-> FALSE, calls |-> 0, astray |-> <<>>, uninit |-> 0, oob |-> <<>>]
    /\ big_endian = FALSE
    /\ heap = <<>>
    /\ x = 0
    /\ rreg = <<>>
    /\ reg = <<>>
    /\ mst = NoState
    /\ ust = NoState
    /\ y = 0

PushInt ==
    /\ pc = "int"
    /\ pc' = "pushed"
    /\ ibuf' = pushint([buf |-> ibuf], ival).buf
    /\ ires' = [ires EXCEPT !.start = Len(ibuf)]
    /\ UNCHANGED <<big_endian, heap, x, rreg, reg, mst, ust, ival, y>>

ReadInt ==
    /\ pc = "pushed"
    /\ pc' = "read"
    /\ ires' = readint([ires EXCEPT !.bytes = ibuf, !.data = ires.start])
    /\ UNCHANGED <<big_endian, heap, x, rreg, reg, mst, ust, ival, ibuf, y>>

NextInt == PushInt \/ ReadInt

SpecInt == InitInt /\ [][NextInt]_vars

\* the bytes pushint appended in this run
Written == SubSeq(ibuf, ires.start + 1, Len(ibuf))

\* C1: readint applied to the bytes pushint wrote for x returns x and advances
\* the cursor by exactly the number of bytes written.
C1_ReadintInvertsPushint ==
    pc = "read" =>
        /\ ires.err = ""
        /\ ires.ret = ival
        /\ ires.data = ires.start + Len(Written)
        /\ ires.data = Len(ibuf)

\* a negative value of the 2-byte form and both extremes of the 5-byte form were read back
C1_Witness ==
    /\ pc = "read"
    /\ ival \in {-8192, INT32_MIN, INT32_MAX, -8193, 8192}
    /\ ires.ret = ival
    /\ ires.start > 0

\* C2: pushint writes 1 byte (x) for 0 <= x < 128, 2 bytes
\* (((x >> 8) & 0x3F) | 0x80, x & 0xFF) for the rest of -8192..8191, and otherwise
\* 5 bytes, 205 and x big-endian; the five concrete encodings of the spec follow.
C2_PushintLayout ==
    pc = "pushed" =>
        /\ (ival >= 0 /\ ival < 128) => Written = <<ival>>
        /\ (ival >= -8192 /\ ival <= 8191 /\ ~(ival >= 0 /\ ival < 128)) =>
              /\ Len(Written) = 2
              /\ Written[1] = ((ival \div 256) % 64) + 128
              /\ Written[2] = ival % 256
        /\ (ival < -8192 \/ ival > 8191) =>
              /\ Len(Written) = 5
              /\ Written[1] = 205
              /\ Shl32(Written[2], 24) + Written[3] * 65536 + Written[4] * 256 + Written[5]
                    = ival
        /\ ival = 0 => Written = <<0>>
        /\ ival = 127 => Written = <<127>>
        /\ ival = 128 => Written = <<128, 128>>
        /\ ival = -1 => Written = <<191, 255>>
        /\ ival = 1000000 => Written = <<205, 0, 15, 66, 64>>

C2_Witness ==
    /\ pc = "pushed"
    /\ ival = 1000000
    /\ Len(Written) = 5

(***************************************************************************)
(* The reader on arbitrary bytes: an encoding the writer returned is cut   *)
(* short or has one byte replaced by a short byte string, and is decoded.  *)
(***************************************************************************)
\* the values whose encodings are damaged
BytesRoots ==
    { str, cfun, tup(9), arr(6), tab(7), arr(15), abs(12), fun(16), arr(more(12)),
      fib(18), fib(22) }

BytesRegistries ==
    { <<NULL, NULL>>, <<Some(ReverseRegistry), Some(ForwardRegistry)>>,
      <<Some(ReverseRegistry), NULL>> }

\* what a byte is replaced by: 0, 1, 127 and the five-byte forms of -1, -128
\* and INT32_MAX
Replacements ==
    { <<0>>, <<1>>, <<127>>, <<LB_INTEGER, 255, 255, 255, 255>>,
      <<LB_INTEGER, 255, 255, 255, 128>>, <<LB_INTEGER, 127, 255, 255, 255>> }

InitBytes ==
    /\ pc = "init"
    /\ big_endian = FALSE
    /\ heap = Heap(DefaultA, DefaultB)
    /\ x \in BytesRoots
    /\ \E r \in BytesRegistries : rreg = r[1] /\ reg = r[2]
    /\ mst = NoState
    /\ ust = NoState
    /\ ival = 0
    /\ ibuf = <<>>
    /\ ires = NoState
    /\ y = janet_wrap_nil

\* the input is a proper prefix of the encoding
Truncate ==
    /\ pc = "marshaled"
    /\ mst.err = ""
    /\ pc' = "input"
    /\ \E k \in 0..(Len(mst.buf) - 1) : ibuf' = SubSeq(mst.buf, 1, k)
    /\ UNCHANGED <<big_endian, heap, x, rreg, reg, mst, ust, ival, ires, y>>

\* the input is the encoding with the byte at one index replaced
Corrupt ==
    /\ pc = "marshaled"
    /\ mst.err = ""
    /\ pc' = "input"
    /\ \E i \in 1..Len(mst.buf), r \in Replacements :
          ibuf' = SubSeq(mst.buf, 1, i - 1) \o r \o SubSeq(mst.buf, i + 1, Len(mst.buf))
    /\ UNCHANGED <<big_endian, heap, x, rreg, reg, mst, ust, ival, ires, y>>

\* janet_unmarshal(bytes, len, 0, reg, NULL) on the input
Decode ==
    /\ pc = "input"
    /\ pc' = "decoded"
    /\ \E un \in UninitBytes, nl \in Undefined :
          ust' = janet_unmarshal(ibuf, heap, 0, reg, big_endian, un, nl)
    /\ heap' = ust'.heap
    /\ UNCHANGED <<big_endian, x, rreg, reg, mst, ival, ibuf, ires, y>>

NextBytes == Marshal \/ Truncate \/ Corrupt \/ Decode

SpecBytes == InitBytes /\ [][NextBytes]_vars

\* the vector of the reader that a back-reference of the kind what indexes
Vector(us, what) ==
    CASE what = "lookup" -> us.lookup
      [] what = "lookup_envs" -> us.lookup_envs
      [] what = "lookup_defs" -> us.lookup_defs

\* the failure an id out of range of the vector raises
InvalidReference(what) ==
    CASE what = "lookup" -> "invalid reference"
      [] what = "lookup_envs" -> "invalid funcenv reference"
      [] what = "lookup_defs" -> "invalid funcdef reference"

\* C11: for arbitrary input bytes, an LB_REFERENCE, LB_FUNCENV_REF or LB_FUNCDEF_REF
\* record whose id is negative or not smaller than the number of entries pushed so
\* far onto its vector makes the decode fail with the invalid-reference error of
\* that vector (no record is read after it); an id in range resolves to the entry
\* of the vector at that index.
C11_InvalidReference ==
    pc = "decoded" =>
        \A i \in 1..Len(ust.refs) :
            LET r == ust.refs[i]
            IN  IF r.id < 0 \/ r.id >= r.count
                THEN /\ r.got = NULL
                     /\ i = Len(ust.refs)
                     /\ ust.err = InvalidReference(r.what)
                ELSE /\ r.count <= Len(Vector(ust, r.what))
                     /\ r.got = Some(Vector(ust, r.what)[r.id + 1])

\* an input in which a reference in range is followed by a funcenv reference with a
\* negative id
C11_Witness ==
    /\ pc = "decoded"
    /\ \E i, j \in 1..Len(ust.refs) :
          /\ i < j
          /\ ust.refs[i].id >= 0 /\ ust.refs[i].id < ust.refs[i].count
          /\ ust.refs[i].got # NULL
          /\ ust.refs[j].what = "lookup_envs"
          /\ ust.refs[j].id < 0
    /\ ust.err = "invalid funcenv reference"

\* the input is a proper prefix of the encoding the writer returned
IsProperPrefix == Len(ibuf) < Len(mst.buf) /\ ibuf = SubSeq(mst.buf, 1, Len(ibuf))

\* C12: for every marshalable value v and every proper prefix p of marshal(v), the
\* empty prefix included, unmarshal(p) fails with 'unexpected end of source': it
\* returns no value and reads no byte at or beyond the end of p.
C12_PrefixFails ==
    (pc = "decoded" /\ IsProperPrefix) =>
        /\ ust.err = "unexpected end of source"
        /\ ust.oob = <<>>

\* C13: within one decode of arbitrary input bytes the read cursor never moves
\* backwards and never leaves the input: every call of readint, unmarshal_one,
\* unmarshal_one_def, unmarshal_one_env, unmarshal_one_fiber and
\* unmarshal_one_abstract that returns, returns a cursor c with
\* (cursor it was given) <= c <= end, also when a string, symbol, keyword, buffer or
\* registry record carries a negative length.
C13_CursorMonotone ==
    pc = "decoded" => ust.astray = <<>>

\* C14: a marshal call changes nothing but the writer's private state and the output
\* buffer: every field of every object of the marshaled value graph, the flags word
\* of each function definition and of each stack frame included, has the same value
\* after the call as before it.
C14_MarshalLeavesHeap ==
    [][(pc = "init" /\ pc' = "marshaled") => heap' = heap]_vars

(***************************************************************************)
(* The native functions of the module: (marshal x [,reverse-lookup         *)
(* [,buffer]]) as registered in marsh_cfuns.  A call is a record [err,     *)
(* ret, heap]: the panic message ("" on return), the value returned and    *)
(* the heap the call leaves.                                               *)
(***************************************************************************)
\* janet_arity(argc, min, max): the message of the panic, "" when the count fits
janet_arity(argc, min, max) ==
    IF min >= 0 /\ argc < min THEN "arity mismatch, expected at least"
    ELSE IF max >= 0 /\ argc > max THEN "arity mismatch, expected at most"
    ELSE ""

\* janet_gettable(argv, n) and janet_getbuffer(argv, n): the message of the panic
janet_getarg(argv, n, t) ==
    IF janet_checktype(argv[n + 1], t) THEN "" ELSE "bad slot, expected " \o t

\* janet_buffer(10): a new empty buffer
janet_buffer(H) == [H EXCEPT !.obj = Append(@, Buffer(<<>>))]

cfun_marshal(H, argc, argv, be) ==
    LET arity == janet_arity(argc, 1, 2)
        gettable == IF argc > 1 THEN janet_getarg(argv, 1, "table") ELSE ""
        getbuffer == IF argc > 2 THEN janet_getarg(argv, 2, "buffer") ELSE ""
        rr == IF argc > 1 THEN Some(H.obj[argv[2].n].kvs) ELSE NULL
        H1 == IF argc > 2 THEN H ELSE janet_buffer(H)
        b == IF argc > 2 THEN argv[3].n ELSE Len(H1.obj)
        st == janet_marshal(H1.obj[b].data, H1, argv[1], rr, 0, be)
    IN  IF arity # "" THEN [err |-> arity, ret |-> janet_wrap_nil, heap |-> H]
        ELSE IF gettable # "" THEN [err |-> gettable, ret |-> janet_wrap_nil, heap |-> H]
        ELSE IF getbuffer # "" THEN [err |-> getbuffer, ret |-> janet_wrap_nil, heap |-> H]
        ELSE [err |-> st.err, ret |-> buffer(b),
              heap |-> [st.heap EXCEPT !.obj[b].data = st.buf]]

\* the heap with a table that holds the reverse registry
CfunHeap ==
    [Heap(DefaultA, DefaultB) EXCEPT
       !.obj = Append(@, [kind |-> "table", kvs |-> ReverseRegistry, proto |-> 0])]

RegTable == Len(CfunHeap.obj)

\* the buffer handed in as third argument, which holds two bytes
OutBuffer == 5

\* the arguments of a call with ival arguments
Args == SubSeq(<<x, tab(RegTable), buffer(OutBuffer)>>, 1, ival)

InitCfun ==
    /\ pc = "init"
    /\ big_endian = FALSE
    /\ heap = CfunHeap
    /\ x \in Roots
    /\ ival \in 1..3
    /\ rreg = NULL
    /\ reg = NULL
    /\ mst = NoState
    /\ ust = NoState
    /\ ibuf = <<>>
    /\ ires = NoState
    /\ y = janet_wrap_nil

\* (marshal x), (marshal x reverse-lookup) or (marshal x reverse-lookup buffer)
CallMarshal ==
    /\ pc = "init"
    /\ pc' = "called"
    /\ mst' = cfun_marshal(heap, ival, Args, big_endian)
    /\ heap' = mst'.heap
    /\ UNCHANGED <<big_endian, x, rreg, reg, ust, ival, ibuf, ires, y>>

NextCfun == CallMarshal

SpecCfun == InitCfun /\ [][NextCfun]_vars

\* the encoding janet_marshal appends for the call's value and registry
Encoding ==
    janet_marshal(<<>>, CfunHeap, x, IF ival > 1 THEN Some(ReverseRegistry) ELSE NULL,
                  0, big_endian)

\* C15: marshal called with a value, a reverse registry and a buffer as third
\* argument appends the encoding to that buffer after its existing contents and
\* returns that same buffer; called without a buffer it returns a freshly created
\* buffer that holds only the encoding.
C15_MarshalBuffer ==
    (pc = "called" /\ Encoding.err = "") =>
        /\ mst.err = ""
        /\ ival = 3 =>
              /\ mst.ret = buffer(OutBuffer)
              /\ heap.obj[OutBuffer].data = CfunHeap.obj[OutBuffer].data \o Encoding.buf
        /\ ival < 3 =>
              /\ mst.ret = buffer(Len(CfunHeap.obj) + 1)
              /\ heap.obj[mst.ret.n].data = Encoding.buf

(***************************************************************************)
(* Two values in one buffer: janet_marshal appends x and then y to the     *)
(* same buffer, janet_unmarshal decodes from offset 0 and then from the    *)
(* cursor the first decode handed out in next.  ibuf keeps the buffer as   *)
(* it was after the first marshal, ust is the first decode, ires the       *)
(* second.                                                                 *)
(***************************************************************************)
SeqRoots ==
    { janet_wrap_integer(7), janet_wrap_nil, str, real, tup(9), arr(6), tab(7),
      buffer(5), abs(11), abs(12), abs(14), arr(15), fun(16), fib(18) }

InitSeq ==
    /\ pc = "init"
    /\ big_endian = FALSE
    /\ heap = Heap(DefaultA, DefaultB)
    /\ x \in SeqRoots
    /\ y \in SeqRoots
    /\ rreg = NULL
    /\ reg = NULL
    /\ mst = NoState
    /\ ust = NoState
    /\ ival = 0
    /\ ibuf = <<>>
    /\ ires = NoState

\* janet_marshal(buf, v, rreg, 0): x into the empty buffer, then y into the buffer
\* that holds the encoding of x; ibuf keeps the encoding of x
MarshalAppend ==
    /\ pc \in {"init", "marshaled"}
    /\ mst.err = ""
    /\ pc' = IF pc = "init" THEN "marshaled" ELSE "both"
    /\ ibuf' = IF pc = "init" THEN ibuf ELSE mst.buf
    /\ mst' = janet_marshal(IF pc = "init" THEN <<>> ELSE mst.buf, heap,
                            IF pc = "init" THEN x ELSE y, rreg, 0, big_endian)
    /\ heap' = mst'.heap
    /\ UNCHANGED <<big_endian, x, y, rreg, reg, ust, ival, ires>>

\* janet_unmarshal(bytes, len, 0, reg, &next), then janet_unmarshal(next, len - (next -
\* bytes), 0, reg, &next) in the same run; a null or outlying next is not decoded from
DecodeNext ==
    /\ pc \in {"both", "one"}
    /\ mst.err = ""
    /\ pc = "one" => /\ ust.err = ""
                     /\ ~ust.null
                     /\ ust.data >= 0
                     /\ ust.data <= Len(mst.buf)
    /\ pc' = IF pc = "both" THEN "one" ELSE "two"
    /\ \E un \in UninitBytes, ub \in Undefined :
          /\ pc = "one" => (un = ust.uninit /\ ub = ust.ub)
          /\ \E r \in { janet_unmarshal(IF pc = "both" THEN mst.buf
                                         ELSE SubSeq(mst.buf, ust.data + 1, Len(mst.buf)),
                                         heap, 0, reg, big_endian, un, ub) } :
                /\ ust' = IF pc = "both" THEN r ELSE ust
                /\ ires' = IF pc = "both" THEN ires ELSE r
                /\ heap' = r.heap
    /\ UNCHANGED <<big_endian, x, y, rreg, reg, mst, ival, ibuf>>

NextSeq == MarshalAppend \/ DecodeNext

SpecSeq == InitSeq /\ [][NextSeq]_vars

\* C16: for all marshalable values a and b and a buffer that holds marshal(a)
\* followed by marshal(b), janet_unmarshal from offset 0 returns a value equal to a
\* and sets next to the offset of the first byte of marshal(b), the first byte it
\* did not consume; decoding again from next returns a value equal to b, its
\* reference ids being independent of the first decode.
C16_SequentialDecode ==
    /\ pc \in {"one", "two"} =>
          /\ ust.err = ""
          /\ ~ust.null
          /\ ust.data = Len(ibuf)
          /\ PlainData(heap, x) => DeepEqual(heap, x, ust.out)
    /\ pc = "two" =>
          /\ ires.err = ""
          /\ ~ires.null
          /\ ires.data = Len(mst.buf) - Len(ibuf)
          /\ PlainData(heap, y) => DeepEqual(heap, y, ires.out)

(***************************************************************************)
(* Release of the interning state.  janet_marshal frees its seen table and *)
(* its seen_envs and seen_defs vectors, janet_unmarshal its lookup array   *)
(* and its lookup_envs and lookup_defs vectors, in the statements after    *)
(* the one call of marshal_one or unmarshal_one.                           *)
(***************************************************************************)
\* the call has put something into its table or array or into one of its vectors
HoldsSeen(st) == st.seen # <<>> \/ st.seen_envs # <<>> \/ st.seen_defs # <<>>
HoldsLookup(us) == us.lookup # <<>> \/ us.lookup_envs # <<>> \/ us.lookup_defs # <<>>

\* C17: on every exit of janet_marshal and of janet_unmarshal, by return and by
\* panic alike, the call's seen table or lookup array and its definition and
\* environment vectors have been released
C17_ReleasedOnEveryExit ==
    /\ (mst # NoState /\ HoldsSeen(mst)) => mst.released
    /\ (ust # NoState /\ HoldsLookup(ust)) => ust.released

(***************************************************************************)
(* env-lookup.  An environment is a table from symbols to entries, with an *)
(* optional prototype; janet_env_lookup flattens it into a table from      *)
(* symbols to values.  The entries of the environments here have no        *)
(* prototype of their own.                                                 *)
(***************************************************************************)
\* janet_ckeywordv("value") and janet_ckeywordv("ref")
KeyValue == janet_wrap_keyword(<<118, 97, 108, 117, 101>>)
KeyRef == janet_wrap_keyword(<<114, 101, 102>>)

entry_getval_ref_first(H, env_entry) ==
    IF janet_checktype(env_entry, "table") \/ janet_checktype(env_entry, "struct")
    THEN LET entry == H.obj[env_entry.n].kvs
             checkval == janet_table_get(H, entry, KeyRef)
         IN  IF janet_checktype(checkval, "nil")
             THEN janet_table_get(H, entry, KeyValue)
             ELSE checkval
    ELSE janet_wrap_nil

\* entry_getval: the value an environment entry stands for
entry_getval(H, env_entry) ==
    IF janet_checktype(env_entry, "table")
    THEN LET entry == H.obj[env_entry.n].kvs
             checkval == janet_table_get(H, entry, KeyValue)
         IN  IF janet_checktype(checkval, "nil")
             THEN janet_table_get(H, entry, KeyRef)
             ELSE checkval
    ELSE IF janet_checktype(env_entry, "struct")
    THEN LET entry == H.obj[env_entry.n].kvs
             checkval == janet_table_get(H, entry, KeyValue)
         IN  IF janet_checktype(checkval, "nil")
             THEN janet_table_get(H, entry, KeyRef)
             ELSE checkval
    ELSE janet_wrap_nil

\* the for loop of janet_env_lookup over the slots of one table, from slot i on
RECURSIVE env_lookup_slots(_, _, _, _)
env_lookup_slots(H, renv, data, i) ==
    IF i > Len(data) THEN renv
    ELSE env_lookup_slots(H,
             IF janet_checktype(data[i].key, "symbol")
             THEN janet_table_put(H, renv, data[i].key, entry_getval(H, data[i].value))
             ELSE renv,
             data, i + 1)

\* the while loop of janet_env_lookup: env, then env->proto, until there is none
RECURSIVE env_lookup_frames(_, _, _)
env_lookup_frames(H, renv, env) ==
    IF env = 0 THEN renv
    ELSE env_lookup_frames(H, env_lookup_slots(H, renv, H.obj[env].kvs, 1), H.obj[env].proto)

\* janet_env_lookup: the slots of the new table
janet_env_lookup(H, env) == env_lookup_frames(H, <<>>, env)

\* the entries an environment can hold: {:value 5}, {:ref 6}, {:value 8 :ref 6},
\* {:value false :ref 6}, {}, the structs {:value 7}, {:ref 9}, {:value 10 :ref 11},
\* and two values that are neither a table nor a struct
EntryObjects ==
    << Table(<< <<KeyValue, janet_wrap_integer(5)>> >>, 0),
       Table(<< <<KeyRef, janet_wrap_integer(6)>> >>, 0),
       Table(<< <<KeyValue, janet_wrap_integer(8)>>, <<KeyRef, janet_wrap_integer(6)>> >>, 0),
       Table(<< <<KeyValue, janet_wrap_false>>, <<KeyRef, janet_wrap_integer(6)>> >>, 0),
       Table(<<>>, 0),
       Struct(<< <<KeyValue, janet_wrap_integer(7)>> >>),
       Struct(<< <<KeyRef, janet_wrap_integer(9)>> >>),
       Struct(<< <<KeyValue, janet_wrap_integer(10)>>, <<KeyRef, janet_wrap_integer(11)>> >>) >>

Entries ==
    { janet_wrap_pointer(EntryObjects[i].kind, i) : i \in 1..Len(EntryObjects) }
    \cup { janet_wrap_integer(7), janet_wrap_string(<<104, 105>>) }

\* the environment after the entry objects, its prototype (when it has one) before it
ProtoTable == Len(EntryObjects) + 1
EnvTable == Len(EntryObjects) + 2

InitEnv ==
    /\ pc = "init"
    /\ big_endian = FALSE
    /\ \E a \in Entries \cup {janet_wrap_nil}, b \in Entries \cup {janet_wrap_nil},
          k \in {janet_wrap_nil, janet_wrap_pointer("table", 1), janet_wrap_integer(7)},
          p \in Entries \cup {janet_wrap_nil}, proto \in {0, ProtoTable} :
          heap = [obj |-> EntryObjects \o
                          << Table(<< <<sym(97), p>>, <<kw(107), janet_wrap_pointer("table", 2)>> >>, 0),
                             Table(<< <<sym(97), a>>, <<sym(98), b>>, <<kw(107), k>> >>, proto) >>,
                  def |-> <<>>, env |-> <<>>]
    /\ x = janet_wrap_pointer("table", EnvTable)
    /\ y = janet_wrap_nil
    /\ rreg = NULL
    /\ reg = NULL
    /\ mst = NoState
    /\ ust = NoState
    /\ ival = 0
    /\ ibuf = <<>>
    /\ ires = NoState

\* (env-lookup x): janet_env_lookup on the environment
EnvLookup ==
    /\ pc = "init"
    /\ pc' = "looked"
    /\ reg' = Some(janet_env_lookup(heap, x.n))
    /\ UNCHANGED <<big_endian, heap, x, y, rreg, mst, ust, ival, ibuf, ires>>

NextEnv == EnvLookup

SpecEnv == InitEnv /\ [][NextEnv]_vars

\* the environment and the tables along its prototype chain
RECURSIVE Frames(_, _)
Frames(H, env) == IF env = 0 THEN {} ELSE {env} \cup Frames(H, H.obj[env].proto)

\* the entries a key is bound to in the environment or along its prototype chain
Bindings(H, env, k) ==
    { H.obj[f].kvs[i].value : <<f, i>> \in
        { <<f, i>> \in Frames(H, env) \X (1..3) :
             i <= Len(H.obj[f].kvs) /\ H.obj[f].kvs[i].key = k } }

\* what the claim says an entry maps to
SlotOf(H, e) ==
    IF e.type \in {"table", "struct"}
    THEN IF janet_table_get(H, H.obj[e.n].kvs, KeyValue) # janet_wrap_nil
         THEN janet_table_get(H, H.obj[e.n].kvs, KeyValue)
         ELSE janet_table_get(H, H.obj[e.n].kvs, KeyRef)
    ELSE janet_wrap_nil

\* C18: env-lookup maps a symbol whose entry is a table or struct to the entry's
\* :value slot when that is not nil and to its :ref slot otherwise, maps nothing for
\* keys that are not symbols, and treats an entry that is neither a table nor a
\* struct as nil (a nil maps nothing); a symbol bound in several tables of the
\* chain is mapped as one of its entries says
C18_EnvLookup ==
    pc = "looked" =>
       /\ \A i \in DOMAIN reg[1] : reg[1][i].key.type = "symbol"
       /\ \A k \in {sym(97), sym(98), sym(99)} :
             LET got == janet_table_get(heap, reg[1], k)
                 bound == Bindings(heap, x.n, k)
             IN  /\ bound = {} => got = janet_wrap_nil
                 /\ bound # {} => got \in { SlotOf(heap, e) : e \in bound }

\* an environment without prototype that binds a to {:ref 6}, b to 7 and the keyword
\* k to {:value 5}: a is mapped to 6, b and k are not mapped
C18_Witness ==
    /\ pc = "looked"
    /\ heap.obj[EnvTable].proto = 0
    /\ Bindings(heap, x.n, sym(97)) = {janet_wrap_pointer("table", 2)}
    /\ Bindings(heap, x.n, sym(98)) = {janet_wrap_integer(7)}
    /\ Bindings(heap, x.n, kw(107)) = {janet_wrap_pointer("table", 1)}
    /\ janet_table_get(heap, reg[1], sym(97)) = janet_wrap_integer(6)
    /\ Len(reg[1]) = 1

(***************************************************************************)
(* Round trip of a coroutine.  The decoded coroutine is compared with the  *)
(* original field by field; a slot of the decoded data that the reader     *)
(* never wrote is memory as malloc returned it and is not in the domain of *)
(* data.                                                                   *)
(***************************************************************************)
\* the indices below stacktop that hold values: all but the frame records, which
\* end at each frame's stack and at stackstart
ValueSlots(fiber) ==
    { k \in 0..(fiber.stacktop - 1) :
        \A s \in DOMAIN fiber.frames \cup {fiber.stackstart} :
           k < s - JANET_FRAME_SIZE \/ k >= s }

\* the decoded function g stands for f: their definitions agree field by field
SameFunction(H, f, g) ==
    LET d == H.def[H.obj[f].def]
        e == H.def[H.obj[g].def]
    IN  /\ d.slotcount = e.slotcount
        /\ d.arity = e.arity
        /\ d.bytecode = e.bytecode
        /\ Len(d.constants) = Len(e.constants)
        /\ d.name = e.name
        /\ Len(H.obj[f].envs) = Len(H.obj[g].envs)

FiberRoundTrip(H, f, g) ==
    LET o == H.obj[f]
        p == H.obj[g]
    IN  /\ p.frame = o.frame
        /\ p.stackstart = o.stackstart
        /\ p.stacktop = o.stacktop
        /\ p.maxstack = o.maxstack
        /\ ClearBit(p.flags, JANET_FIBER_FLAG_HASCHILD)
              = ClearBit(o.flags, JANET_FIBER_FLAG_HASCHILD)
        /\ (p.child # 0) <=> (o.child # 0)
        /\ DOMAIN p.frames = DOMAIN o.frames
        /\ \A s \in DOMAIN o.frames :
              /\ p.frames[s].prevframe = o.frames[s].prevframe
              /\ p.frames[s].pc = o.frames[s].pc
              /\ SameFunction(H, o.frames[s].func, p.frames[s].func)
              /\ (p.frames[s].env # 0) <=> (o.frames[s].env # 0)
        /\ \A k \in ValueSlots(o) :
              /\ (k + 1) \in DOMAIN p.data
              /\ DeepEqual(H, o.data[k + 1], p.data[k + 1])

\* the coroutine is not alive and every frame of it has a function
Suspended(H, f) ==
    /\ janet_fiber_status(H.obj[f]) # JANET_STATUS_ALIVE
    /\ \A s \in DOMAIN H.obj[f].frames : H.obj[f].frames[s].func # 0

\* C19: a non-alive coroutine whose frames all have functions round-trips as a whole
\* call stack: same frame, stackstart, stacktop, maxstack, same flags apart from the
\* HASCHILD bit, a child iff the original had one, per frame the same prevframe, pc
\* offset, function and presence of an environment, and the same value in every
\* value slot below stacktop
C19_FiberRoundTrip ==
    (pc = "done" /\ x.type = "fiber" /\ Suspended(heap, x.n)) =>
       /\ ust.err = ""
       /\ ust.out.type = "fiber"
       /\ FiberRoundTrip(heap, x.n, ust.out.n)

(***************************************************************************)
(* Coroutine records with arbitrary fields.  The input is the record of a  *)
(* coroutine of at most two frames whose integers are drawn from small     *)
(* sets that hold valid values, values that break one condition each, and  *)
(* values at the ends of the int32 range.  The record is written by the    *)
(* writer from a description of the coroutine.                             *)
(***************************************************************************)
\* the described coroutine: its frame is F(frame) with the given prevframe and pc, the
\* frame below it (when prevframe > 0) returns to no frame; every frame's function is
\* object 1, whose definition has the given slotcount and arity
Described(frame, stackstart, stacktop, maxstack, prevframe, pcdiff, slotcount) ==
    [obj |-> << Function(1, <<>>),
                [kind |-> "fiber", flags |-> JANET_STATUS_PENDING * 65536, frame |-> frame,
                 stackstart |-> stackstart, stacktop |-> stacktop, maxstack |-> maxstack,
                 capacity |-> 6 * JANET_FRAME_SIZE,
                 data |-> [ k \in 1..(6 * JANET_FRAME_SIZE) |-> janet_wrap_integer(k) ],
                 frames |-> (frame :> [env |-> 0, pc |-> pcdiff, prevframe |-> prevframe,
                                        flags |-> 0, func |-> 1])
                            @@ (prevframe :> [env |-> 0, pc |-> 0, prevframe |-> 0,
                                              flags |-> 0, func |-> 1]),
                 child |-> 0] >>,
     def |-> << [FuncDef(<<>>, NULL, NULL, NULL, NULL) EXCEPT
                   !.slotcount = slotcount, !.arity = slotcount] >>,
     env |-> <<>>]

\* the values the integers of the record take
FrameOffsets == {0, 1, JANET_FRAME_SIZE, 2 * JANET_FRAME_SIZE + 1, INT32_MAX - 3, -JANET_FRAME_SIZE}
StackStarts == {0, JANET_FRAME_SIZE + 1, JANET_FRAME_SIZE + 2, 2 * JANET_FRAME_SIZE, 2 * JANET_FRAME_SIZE + 1,
                3 * JANET_FRAME_SIZE + 2}
StackTops == {0, 1, -1}
MaxStacks == {0, 100}
PrevFrames == {0, 1, JANET_FRAME_SIZE, JANET_FRAME_SIZE + 1, -1, -JANET_FRAME_SIZE, INT32_MAX - 3}
PcOffsets == {0, 1, 2, -1}
SlotCounts == {1, INT32_MIN}

InitFiber ==
    /\ pc = "input"
    /\ big_endian = FALSE
    /\ heap = Heap(DefaultA, DefaultB)
    /\ x = janet_wrap_nil
    /\ y = janet_wrap_nil
    /\ rreg = NULL
    /\ reg = NULL
    /\ mst = NoState
    /\ ust = NoState
    /\ ival = 0
    /\ ires = NoState
    /\ \E frame \in FrameOffsets, stackstart \in StackStarts, d \in StackTops,
          maxstack \in MaxStacks, prevframe \in PrevFrames, pcdiff \in PcOffsets,
          slotcount \in SlotCounts :
          /\ prevframe # frame
          \* the writer would walk from the frame down to prevframe
          /\ frame > 3 * JANET_FRAME_SIZE => prevframe <= 0
          /\ ibuf = janet_marshal(<<>>, Described(frame, stackstart, stackstart + d, maxstack,
                                                  prevframe, pcdiff, slotcount),
                                  janet_wrap_pointer("fiber", 2), NULL, 0, FALSE).buf

NextFiber == Decode

SpecFiber == InitFiber /\ [][NextFiber]_vars

\* the frames the reader installed in the decoded coroutine g, each with the top of
\* its slots: stackstart - FRAME_SIZE for the frame at g's frame, and stack -
\* FRAME_SIZE of the frame above for the others
RECURSIVE Installed(_, _, _, _)
Installed(H, g, stack, stacktop) ==
    IF stack <= 0 \/ stack \notin DOMAIN H.obj[g].frames THEN {}
    ELSE {<<stack, stacktop>>}
         \cup Installed(H, g, H.obj[g].frames[stack].prevframe, stack - JANET_FRAME_SIZE)

\* the conditions of the claim on a decoded coroutine, in the integers (no wrap):
\* a + FRAME_SIZE <= b is written a <= b - FRAME_SIZE
WellFormedFiber(H, g) ==
    LET fiber == H.obj[g]
    IN  /\ fiber.frame <= fiber.stackstart - JANET_FRAME_SIZE
        /\ fiber.stackstart <= fiber.stacktop
        /\ fiber.stacktop <= fiber.maxstack
        /\ \A fr \in Installed(H, g, fiber.frame, fiber.stackstart - JANET_FRAME_SIZE) :
              LET stack == fr[1]
                  stacktop == fr[2]
                  frame == fiber.frames[stack]
                  def == H.def[H.obj[frame.func].def]
              IN  /\ def.slotcount = stacktop - stack
                  /\ 0 <= frame.pc
                  /\ frame.pc < Len(def.bytecode)
                  /\ frame.prevframe <= stack - JANET_FRAME_SIZE

\* C20: for arbitrary input bytes the reader accepts a coroutine only if frame +
\* FRAME_SIZE <= stackstart <= stacktop <= maxstack and, for every frame it installs,
\* the function's slotcount equals stacktop - stack, 0 <= pc offset < bytecode_length
\* and prevframe + FRAME_SIZE <= stack; any violation makes the decode fail
C20_AcceptsOnlyWellFormed ==
    (pc = "decoded" /\ ust.err = "" /\ ust.out.type = "fiber") =>
        WellFormedFiber(ust.heap, ust.out.n)

(***************************************************************************)
(* Interning of definitions and environments.  The writer's seen_defs and  *)
(* seen_envs hold the originals in the order in which they were written in *)
(* full, the reader's lookup_defs and lookup_envs the decoded ones in the  *)
(* order in which they were allocated.                                     *)
(***************************************************************************)
NoRepeat(vec) == \A i, j \in DOMAIN vec : vec[i] = vec[j] => i = j

\* the decoded definition e stands for d, the decoded environment f for g
SameDef(H, d, e) ==
    /\ H.def[d].slotcount = H.def[e].slotcount
    /\ H.def[d].arity = H.def[e].arity
    /\ H.def[d].bytecode = H.def[e].bytecode
    /\ Len(H.def[d].constants) = Len(H.def[e].constants)
    /\ H.def[d].name = H.def[e].name
    /\ OptLen(H.def[d].defs) = OptLen(H.def[e].defs)

SameEnv(H, g, f) ==
    /\ H.env[g].offset = H.env[f].offset
    /\ H.env[g].length = H.env[f].length

\* the functions the writer marked, each with the value the reader holds under its id
MarkedFunctions ==
    { i \in DOMAIN mst.seen : mst.seen[i].key.type = "function" }

\* C21: within one marshal/unmarshal pair a definition or environment is materialized
\* exactly once: the index the writer gives it in seen_defs / seen_envs is the index of
\* its decoded counterpart in lookup_defs / lookup_envs, every reference the reader
\* resolves is to that index, and functions that shared a definition or an
\* environment share the decoded one
C21_MaterializedOnce ==
    (pc = "done" /\ ust.err = "") =>
       /\ NoRepeat(mst.seen_defs) /\ NoRepeat(mst.seen_envs)
       /\ NoRepeat(ust.lookup_defs) /\ NoRepeat(ust.lookup_envs)
       /\ Len(ust.lookup_defs) = Len(mst.seen_defs)
       /\ Len(ust.lookup_envs) = Len(mst.seen_envs)
       /\ Len(ust.heap.def) = Len(mst.heap.def) + Len(ust.lookup_defs)
       /\ Len(ust.heap.env) = Len(mst.heap.env) + Len(ust.lookup_envs)
       /\ \A i \in DOMAIN mst.seen_defs : SameDef(ust.heap, mst.seen_defs[i], ust.lookup_defs[i])
       /\ \A i \in DOMAIN mst.seen_envs : SameEnv(ust.heap, mst.seen_envs[i], ust.lookup_envs[i])
       /\ \A k \in DOMAIN ust.refs :
             /\ ust.refs[k].what = "lookup_defs" =>
                   ust.refs[k].got = Some(ust.lookup_defs[ust.refs[k].id + 1])
             /\ ust.refs[k].what = "lookup_envs" =>
                   ust.refs[k].got = Some(ust.lookup_envs[ust.refs[k].id + 1])
       /\ \A i \in MarkedFunctions :
             LET f == ust.heap.obj[mst.seen[i].key.n]
                 v == ust.lookup[mst.seen[i].value.n + 1]
                 g == ust.heap.obj[v.n]
             IN  /\ v.type = "function"
                 /\ VecIndex(ust.lookup_defs, g.def) = VecIndex(mst.seen_defs, f.def)
                 /\ VecIndex(ust.lookup_defs, g.def) # 0
                 /\ Len(g.envs) = Len(f.envs)
                 /\ \A e \in DOMAIN f.envs :
                       /\ VecIndex(ust.lookup_envs, g.envs[e]) = VecIndex(mst.seen_envs, f.envs[e])
                       /\ VecIndex(ust.lookup_envs, g.envs[e]) # 0

\* the array of two closures that share definition 1 and environment 1 is decoded:
\* two definitions and one environment were written in full, the reader resolved a
\* reference to definition 0, and the two decoded closures are distinct functions with
\* one definition and one environment
C21_Witness ==
    /\ pc = "done"
    /\ ust.err = ""
    /\ x = arr(more(12))
    /\ mst.seen_defs = <<1, 2>>
    /\ mst.seen_envs = <<1>>
    /\ \E k \in DOMAIN ust.refs : ust.refs[k].what = "lookup_defs" /\ ust.refs[k].id = 0
    /\ \E k \in DOMAIN ust.refs : ust.refs[k].what = "lookup_envs" /\ ust.refs[k].id = 0
    /\ LET d == ust.heap.obj[ust.out.n].data
       IN  /\ Len(d) = 2
           /\ d[1].n # d[2].n
           /\ ust.heap.obj[d[1].n].def = ust.heap.obj[d[2].n].def
           /\ ust.heap.obj[d[1].n].envs = ust.heap.obj[d[2].n].envs
           /\ ust.heap.obj[d[1].n].def > Len(mst.heap.def)

(***************************************************************************)
(* Round trip of a function definition.  The definitions the writer wrote  *)
(* in full stand in seen_defs, their decoded counterparts at the same      *)
(* indices of lookup_defs.                                                 *)
(***************************************************************************)
\* the definitions d (original) and e (decoded) agree in every field the record holds
DefRoundTrip(H, d, e) ==
    LET o == H.def[d]
        p == H.def[e]
    IN  /\ p.slotcount = o.slotcount
        /\ p.arity = o.arity
        /\ Len(p.constants) = Len(o.constants)
        /\ \A k \in DOMAIN o.constants :
              k \in DOMAIN p.constants /\ DeepEqual(H, o.constants[k], p.constants[k])
        /\ p.bytecode = o.bytecode
        /\ OptSeq(p.environments) = OptSeq(o.environments)
        /\ OptLen(p.defs) = OptLen(o.defs)
        /\ \A k \in DOMAIN OptSeq(o.defs) :
              /\ k \in DOMAIN OptSeq(p.defs)
              /\ VecIndex(ust.lookup_defs, p.defs[1][k]) = VecIndex(mst.seen_defs, o.defs[1][k])
              /\ VecIndex(mst.seen_defs, o.defs[1][k]) # 0
        /\ p.name = o.name
        /\ p.source = o.source
        /\ o.sourcemap # NULL => p.sourcemap = o.sourcemap

\* C22: after a marshal/unmarshal pair every definition the writer wrote in full has a
\* decoded counterpart that equals it in slotcount, arity, constants, bytecode words,
\* environment indices, nested definitions, name, source and, when present, source map
C22_DefRoundTrip ==
    (pc = "done" /\ ust.err = "") =>
       /\ Len(ust.lookup_defs) = Len(mst.seen_defs)
       /\ \A i \in DOMAIN mst.seen_defs :
             /\ i \in DOMAIN ust.lookup_defs
             /\ DefRoundTrip(ust.heap, mst.seen_defs[i], ust.lookup_defs[i])

\* the same, on builds where the bytes of a double are read in wire order
C22_DefRoundTripLittleEndian == big_endian = FALSE => C22_DefRoundTrip

(***************************************************************************)
(* The reader's walk over the frames of a coroutine.  Every frame the      *)
(* reader installs is kept in the decoded coroutine under its offset, with *)
(* the prevframe the walk went on to, also when the decode fails later.    *)
(***************************************************************************)
\* the coroutines the reader allocated
DecodedFibers ==
    { g \in DOMAIN ust.heap.obj :
        g > Len(Heap(DefaultA, DefaultB).obj) /\ ust.heap.obj[g].kind = "fiber" }

\* every iteration that did not fail went on to an offset at least FRAME_SIZE below
\* its own, and an accepted coroutine's walk did not end below 0
FrameWalkDescends ==
    \A g \in DecodedFibers :
       \A stack \in DOMAIN ust.heap.obj[g].frames :
          /\ ust.heap.obj[g].frames[stack].prevframe <= stack - JANET_FRAME_SIZE
          /\ ust.err = "" => ust.heap.obj[g].frames[stack].prevframe >= 0

\* C23: for arbitrary input bytes the reader's walk over a coroutine's frames
\* terminates: every iteration fails or goes on to a frame offset strictly smaller
\* than its own (prevframe <= stack - FRAME_SIZE), the loop stops when the offset is
\* not positive, and a walk that ends at a negative offset fails
C23_FrameWalkTerminates ==
    pc = "decoded" => FrameWalkDescends

\* the same, when a sum that leaves the int32 range ends the run
C23_FrameWalkTerminatesNoWrap ==
    (pc = "decoded" /\ ust.ub = "killed") => FrameWalkDescends

(***************************************************************************)
(* Where the reader writes frame records.  The record of the frame at      *)
(* offset stack occupies data[stack - FRAME_SIZE .. stack - 1]; data has   *)
(* capacity slots.                                                         *)
(***************************************************************************)
\* every frame record written lies in the data of its coroutine, and no run was
\* ended by a write outside it
FramesInsideData ==
    /\ ust.err # "killed: write outside fiber->data"
    /\ \A g \in DecodedFibers :
          \A stack \in DOMAIN ust.heap.obj[g].frames :
             /\ JANET_FRAME_SIZE <= stack
             /\ stack <= ust.heap.obj[g].capacity

\* C24: for arbitrary input bytes every frame record the reader writes into a decoded
\* coroutine lies inside the coroutine's data array: FRAME_SIZE <= stack <= capacity
\* for every frame installed at offset stack
C24_FrameRecordInsideData ==
    pc = "decoded" => FramesInsideData

\* what the reader's checks do give when no sum leaves the int32 range: the record of
\* every frame ends inside the data array
C24_FrameRecordEndsInsideData ==
    (pc = "decoded" /\ ust.ub = "killed") =>
       \A g \in DecodedFibers :
          \A stack \in DOMAIN ust.heap.obj[g].frames :
             0 < stack /\ stack <= ust.heap.obj[g].capacity

(***************************************************************************)
(* Abstract values whose type cannot be decoded.                           *)
(***************************************************************************)
\* the value is an abstract whose registered type has no unmarshal hook
HookLess(H, v) ==
    v.type = "abstract" /\ ~AbstractTypes[H.obj[v.n].at].unmarshal

\* C25: decoding an LB_ABSTRACT record whose type name is not registered or whose type
\* has no unmarshal hook fails with an error; unmarshal never returns normally, with
\* an unset value or a null cursor, for such input
C25_AbstractWithoutHookFails ==
    (pc \in {"done", "decoded"}
       /\ ((pc = "done" /\ Head(mst.buf) = LB_ABSTRACT /\ HookLess(heap, x)) \/ ust.null))
    => ust.err # ""

(***************************************************************************)
(* A symbol bound in the environment and in its prototype.                 *)
(***************************************************************************)
\* the entry the table binds the symbol a to, nil when it binds none
OwnEntry(H, t) == janet_table_get(H, H.obj[t].kvs, sym(97))

\* the symbol a is bound in the environment and in its prototype
BoundTwice(H, env) ==
    /\ H.obj[env].proto # 0
    /\ OwnEntry(H, env) # janet_wrap_nil
    /\ OwnEntry(H, H.obj[env].proto) # janet_wrap_nil

\* C26: when a symbol is bound in an environment table and in a table further along
\* its prototype chain, env-lookup maps the symbol as the binding nearest to the
\* starting environment says; a binding in a prototype neither removes nor replaces it
C26_NearestBindingShadows ==
    (pc = "looked" /\ BoundTwice(heap, x.n)) =>
        janet_table_get(heap, reg[1], sym(97)) = SlotOf(heap, OwnEntry(heap, x.n))

\* what the loop does: the binding farthest along the chain decides
C26_FarthestBindingDecides ==
    (pc = "looked" /\ BoundTwice(heap, x.n)) =>
        janet_table_get(heap, reg[1], sym(97))
           = SlotOf(heap, OwnEntry(heap, heap.obj[x.n].proto))

====
